---- MODULE Spec2Model ----
(***************************************************************************)
(* Camera rig (core/CameraManager.js) and frame renderer                   *)
(* (core/RenderManager.js) of the Pepper's Ghost viewer.                   *)
(*                                                                         *)
(* Units.  Angles are whole degrees (multiples of 10).  Lengths are        *)
(* hundredths of a scene unit (3.5 is 350).  Sines and cosines are         *)
(* thousandths.  Ratios (aspect, viewport geometry) are reduced fractions  *)
(* <<numerator, denominator>>.  Camera objects live in a heap (camObj); a  *)
(* camera's identity is its heap index and 0 is null.  A quadrant chain    *)
(* (EffectComposer) is identified by its place in quadrantComposers.       *)
(***************************************************************************)
EXTENDS Integers, Sequences, FiniteSets, TLC

VARIABLES
    distance,          \* CameraManager.distance
    lookAtTarget,      \* CameraManager.lookAtTarget
    userCameraState,   \* CameraManager.userCameraState
    quadrantMode,      \* CameraManager.quadrantMode
    cameras,           \* CameraManager.cameras: 4 references into camObj
    singleCamera,      \* CameraManager.singleCamera: reference into camObj
    camObj,            \* heap of THREE.PerspectiveCamera objects
    canvasSize,        \* window inner size = canvas client size
    composer,          \* RenderManager.composer: <<>> (null) or <<chain>>
    quadrantComposers, \* RenderManager.quadrantComposers: the chain objects
    last,              \* the last call: name, argument, result, the rig before
                       \* it, and what it did to the GPU surface
    crossSaved,        \* yaw/roll of the 4 cameras when CROSS_VIEW was last left
    renderer,          \* RenderManager.renderer: "WebGLRenderer" or "undefined"
    build,             \* how the page was built: "dev" or "minified"
    app,               \* the app object: isAnimating, viewMode, its scene
    rafQueue,          \* animate callbacks waiting for the next frame
    tick,              \* what the last run of animate() did
    frame,             \* the statement a running animate() has reached
    fu,                \* FuApp's charge sequence and its pending callbacks
    tap,               \* the TapDetector: clock, recorded taps, timers
    resizeCallbacks    \* RenderManager.resizeCallbacks and what was invoked

vars == <<distance, lookAtTarget, userCameraState, quadrantMode, cameras,
          singleCamera, camObj, canvasSize, composer, quadrantComposers,
          last, crossSaved, renderer, build, app, rafQueue, tick,
          frame, fu, tap, resizeCallbacks>>

\* the page around the rig and the renderer
hostVars == <<renderer, build, app, rafQueue, tick,
              frame, fu, tap, resizeCallbacks>>

\* the parts of the page the animation loop does not touch
pageVars == <<frame, fu, tap, resizeCallbacks>>

appVars == <<app, rafQueue, tick>>

rigVars == <<distance, lookAtTarget, userCameraState, quadrantMode, cameras,
             singleCamera>>

rendererVars == <<canvasSize, composer, quadrantComposers>>

----------------------------------------------------------------------------
(* Bounds of the model *)

MaxCamObjs == 13

MaxSide == 40

TimeSteps == 3

\* charge taps counted by FuApp.tapCount before the model stops counting
MaxTapCount == 4

\* explosion timers, and chains of frame callbacks of a kind, pending at once
MaxPending == 2

\* frames a converge animation (500 ms) and a scale-up animation (400 ms)
\* take after their first, synchronous run
ConvergeFrames == 2

ScaleFrames == 2

\* Date.now() when the page opens, later than any cooldown after time 0,
\* and when the model stops the clock
StartClock == 3

MaxClock == 10

\* setTimeout calls of the tap detector before the model stops them
MaxTimers == 2

\* options.longPressDuration, in hundreds of milliseconds
LongPress == 4

\* resize callbacks registered before the model stops registering
MaxCallbacks == 3

(* Program constants *)

\* the tap detector's defaults and the applications' options, in hundreds
\* of milliseconds
DefaultCooldown == 3

DefaultTapWindow == 6

DefaultRequiredTaps == 3

AppCooldown == 2

AppTapWindow == 15

AppRequiredTaps == 2

MinPitch == -30
MaxPitch == 60
DefaultPitch == 20
DefaultDistance == 350
FuPitch == 0
FuDistance == 680

Null == 0

Modes == {"pepper-ghost", "unified-front"}

Apps == {"PepperGhostApp", "CakeApp", "FuApp"}

\* vite serves the modules as written (dev); vite build minifies them with
\* esbuild, which renames classes, so that pass.constructor.name is no
\* longer 'UnrealBloomPass'
Builds == {"dev", "minified"}

----------------------------------------------------------------------------
(* Arithmetic helpers *)

Abs(n) == IF n < 0 THEN -n ELSE n

Min2(a, b) == IF a < b THEN a ELSE b

Max2(a, b) == IF a > b THEN a ELSE b

RECURSIVE Gcd(_, _)
Gcd(a, b) == IF b = 0 THEN a ELSE Gcd(b, a % b)

\* the fraction n/d, reduced, with a positive denominator (d # 0)
Rat(n, d) ==
    LET g == Gcd(Abs(n), Abs(d))
        s == IF d < 0 THEN -1 ELSE 1
    IN  <<(s * n) \div g, (s * d) \div g>>

RAdd(p, q) == Rat(p[1] * q[2] + q[1] * p[2], p[2] * q[2])

RSub(p, q) == Rat(p[1] * q[2] - q[1] * p[2], p[2] * q[2])

RMul(p, q) == Rat(p[1] * q[1], p[2] * q[2])

RDiv(p, q) == Rat(p[1] * q[2], p[2] * q[1])

RFloor(p) == p[1] \div p[2]

\* Math.sin of a whole number of degrees in 0..90, in thousandths
SinTable ==
    [a \in {0, 10, 20, 30, 40, 50, 60, 70, 80, 90} |->
        CASE a = 0 -> 0
          [] a = 10 -> 174
          [] a = 20 -> 342
          [] a = 30 -> 500
          [] a = 40 -> 643
          [] a = 50 -> 766
          [] a = 60 -> 866
          [] a = 70 -> 940
          [] a = 80 -> 985
          [] a = 90 -> 1000]

\* Math.sin(THREE.MathUtils.degToRad(a)), in thousandths
SinDeg(a) ==
    LET m == a % 360
    IN  CASE m <= 90 -> SinTable[m]
          [] m > 90 /\ m <= 180 -> SinTable[180 - m]
          [] m > 180 /\ m <= 270 -> -SinTable[m - 180]
          [] OTHER -> -SinTable[360 - m]

\* Math.cos(THREE.MathUtils.degToRad(a)), in thousandths
CosDeg(a) == SinDeg(a + 90)

----------------------------------------------------------------------------
(* CameraManager *)

Origin == [x |-> 0, y |-> 0, z |-> 0]

\* CameraConfigs with the yaw the constructor's comment gives for
\* 'unified-front' (yaw=0) instead of 180
CameraConfigsYawZero(mode) ==
    IF mode = "unified-front"
    THEN << [name |-> "Back",  yaw |-> 0, roll |-> 0],
            [name |-> "Front", yaw |-> 0, roll |-> 180],
            [name |-> "Left",  yaw |-> 0, roll |-> -90],
            [name |-> "Right", yaw |-> 0, roll |-> 90] >>
    ELSE << [name |-> "Back",  yaw |-> 0,   roll |-> 0],
            [name |-> "Front", yaw |-> 180, roll |-> 180],
            [name |-> "Left",  yaw |-> 90,  roll |-> -90],
            [name |-> "Right", yaw |-> 270, roll |-> 90] >>

\* cameraConfigs of setupCameras for a quadrant mode, in slot order
\* top (Back), bottom (Front), left, right
CameraConfigs(mode) ==
    IF mode = "unified-front"
    THEN << [name |-> "Back",  yaw |-> 180, roll |-> 0],
            [name |-> "Front", yaw |-> 180, roll |-> 180],
            [name |-> "Left",  yaw |-> 180, roll |-> -90],
            [name |-> "Right", yaw |-> 180, roll |-> 90] >>
    ELSE << [name |-> "Back",  yaw |-> 0,   roll |-> 0],
            [name |-> "Front", yaw |-> 180, roll |-> 180],
            [name |-> "Left",  yaw |-> 90,  roll |-> -90],
            [name |-> "Right", yaw |-> 270, roll |-> 90] >>

\* spherical to Cartesian, as setupCameras and updateSingleCameraFromState do
SphericalPosition(target, dist, yaw, pitch) ==
    [x |-> target.x + (dist * SinDeg(yaw) * CosDeg(pitch)) \div 1000000,
     y |-> target.y + (dist * SinDeg(pitch)) \div 1000,
     z |-> target.z + (dist * CosDeg(yaw) * CosDeg(pitch)) \div 1000000]

\* one camera built by the loop body of setupCameras:
\* new PerspectiveCamera(50, 1, 0.1, 100), positioned, lookAt, rotateZ(roll)
QuadrantCamera(config, target, dist, pitch) ==
    [yaw      |-> config.yaw,
     roll     |-> config.roll,
     position |-> SphericalPosition(target, dist, config.yaw, pitch),
     lookAt   |-> target,
     aspect   |-> <<1, 1>>]

\* the 4 camera objects setupCameras creates from the rig's state
SetupCameras(mode, target, dist, pitch) ==
    [i \in 1..4 |-> QuadrantCamera(CameraConfigs(mode)[i], target, dist, pitch)]

\* the references setupCameras stores in this.cameras, given the heap size
FreshRefs(heap) == [i \in 1..4 |-> Len(heap) + i]

\* the single camera after updateSingleCameraFromState
SingleFromState(cam, state, target) ==
    [cam EXCEPT !.position =
                    SphericalPosition(target, state.distance, state.yaw, state.pitch),
                !.lookAt = target]

\* Math.max(-30, Math.min(60, pitch))
ClampPitch(p) == Max2(MinPitch, Min2(MaxPitch, p))

\* singleViewDistance = this.distance * 1.7
SingleViewDistance(d) == (d * 17) \div 10

\* yaw and roll of the cameras a list of references names
YawRoll(refs, heap) ==
    [i \in 1..Len(refs) |-> <<heap[refs[i]].yaw, heap[refs[i]].roll>>]

\* where the cameras a list of references names stand and look
Placed(refs, heap) ==
    [i \in 1..Len(refs) |->
        [yaw |-> heap[refs[i]].yaw, roll |-> heap[refs[i]].roll,
         position |-> heap[refs[i]].position, lookAt |-> heap[refs[i]].lookAt]]

\* the rig as a call finds it
RigSnapshot ==
    [quadrantMode |-> quadrantMode, cameras |-> cameras,
     placed |-> Placed(cameras, camObj),
     userCameraState |-> userCameraState, distance |-> distance,
     lookAtTarget |-> lookAtTarget]

----------------------------------------------------------------------------
(* Inputs *)

\* (initialPitch, initialDistance) of new CameraManager(...): the defaults,
\* FuApp's (0, 6.8), and a pitch above the documented range
CtorArgs == {<<DefaultPitch, DefaultDistance>>, <<FuPitch, FuDistance>>,
             <<90, DefaultDistance>>}

\* window.innerWidth x window.innerHeight when the app starts
StartSize == <<800, 600>>

DistanceArgs == {-100, 0, 450}

\* this.modelCenter of the apps, once the model is loaded
TargetArgs == {[x |-> 10, y |-> 50, z |-> -20]}

\* (deltaYaw, deltaPitch) of rotateSingleCamera
RotateArgs == {<<0, -100>>, <<90, 30>>, <<-90, 100>>}

ModeArgs == Modes \cup {"invalid-mode"}

CanvasSizes == {<<800, 600>>, <<600, 900>>}

\* the canvas sizes the layout is computed for: every w x h up to MaxSide,
\* and some window sizes.  For each of them the doubles of renderQuadrants
\* (w / 2, Math.min(w, h) / 3.3, ...) floor to the same integers as the
\* fractions used here.
LayoutSizes ==
    {<<w, h>> : w \in 1..MaxSide, h \in 1..MaxSide}
        \cup CanvasSizes \cup {<<1920, 1080>>, <<375, 667>>}

----------------------------------------------------------------------------
(* Construction *)

\* new CameraManager(initialPitch, initialDistance), then
\* new RenderManager(canvas), in a window of the given size
Construct(args, size, canvas) ==
        LET initialPitch == args[1]
            initialDistance == args[2]
            state == [pitch |-> initialPitch, yaw |-> 0,
                      distance |-> SingleViewDistance(initialDistance)]
            quads == SetupCameras("pepper-ghost", Origin, initialDistance,
                                  initialPitch)
            single == SingleFromState(
                          [yaw |-> 0, roll |-> 0, position |-> Origin,
                           lookAt |-> Origin, aspect |-> Rat(size[1], size[2])],
                          state, Origin)
        IN  /\ distance = initialDistance
            /\ lookAtTarget = Origin
            /\ userCameraState = state
            /\ quadrantMode = "pepper-ghost"
            /\ cameras = FreshRefs(<<>>)
            /\ camObj = quads \o <<single>>
            /\ singleCamera = 5
            /\ canvasSize = size
            /\ composer = <<>>
            /\ quadrantComposers = <<>>
            /\ renderer = IF canvas THEN "WebGLRenderer" ELSE "undefined"
            /\ last = [op |-> "new", arg |-> args,
                       ret |-> IF canvas THEN "ok" ELSE "error",
                       pre |-> [quadrantMode |-> "pepper-ghost",
                                cameras |-> FreshRefs(<<>>),
                                placed |-> Placed(FreshRefs(<<>>), quads),
                                userCameraState |-> state,
                                distance |-> initialDistance,
                                lookAtTarget |-> Origin],
                       clears |-> 0, draws |-> <<>>,
                released |-> <<>>, cmds |-> <<>>]
            /\ crossSaved = <<>>

\* the app object when its constructor reaches this.animate(): the mesh of
\* PepperGhostApp is built in the constructor, the others load theirs later;
\* FuApp starts paused
AppStart(name) ==
    [name |-> name,
     isAnimating |-> name # "FuApp",
     viewMode |-> "quadrant",
     mesh |-> name = "PepperGhostApp",
     effect |-> FALSE,
     subject |-> 0,
     time |-> 0]

\* no run of animate() yet
NoTick ==
    [parity |-> 0, outcome |-> "none", prev |-> "none", paused |-> FALSE,
     mutated |-> FALSE, subjectMutated |-> FALSE, rendered |-> "none",
     scheduled |-> 0]

\* no animate() is running
NoFrame == [at |-> 0, stepped |-> FALSE, rendering |-> FALSE]

\* FuApp's charge sequence as the constructor leaves it: nothing tapped,
\* the font of the text and of the orbs still loading.  timers counts the
\* pending setTimeout callbacks of the third tap; converge and scaleUp hold,
\* for each pending chain of frame callbacks, the frames it still takes.
\* did names the last handler run and wasReset whether a reset ever ran.
FuStart ==
    [tapCount |-> 0, isRevealed |-> FALSE, isExploding |-> FALSE,
     text |-> "pending", textVisible |-> FALSE,
     orbs |-> "pending", orbVisible |-> <<FALSE, FALSE, FALSE>>,
     timers |-> 0, converge |-> <<>>, scaleUp |-> <<>>,
     did |-> "none", wasReset |-> FALSE]

\* the pointers of the page
Pointers == {1, 2}

\* new TapDetector(): the defaults, in hundreds of milliseconds but for the
\* long press, which is given as an option
DefaultOptions ==
    [cooldown |-> DefaultCooldown, tapWindow |-> DefaultTapWindow,
     requiredTaps |-> DefaultRequiredTaps, longPressDuration |-> LongPress]

\* the options the applications give
AppOptions ==
    [cooldown |-> AppCooldown, tapWindow |-> AppTapWindow,
     requiredTaps |-> AppRequiredTaps, longPressDuration |-> LongPress]

TapOptions == {DefaultOptions, AppOptions}

\* longPressState with no press in progress (null is 0)
NoLongPress ==
    [startTime |-> 0, pointerId |-> 0, timer |-> 0, isActive |-> FALSE]

\* the TapDetector as its constructor leaves it
NewTapDetector(options) ==
    [config |-> options, now |-> StartClock, isActive |-> FALSE,
     tapTimestamps |-> <<>>, lastTapTime |-> 0,
     longPressState |-> NoLongPress, timers |-> {}, nextTimer |-> 1,
     log |-> <<>>, down |-> [p \in Pointers |-> 0],
     event |-> "none", recorded |-> FALSE, emitted |-> "none"]

TapStart == NewTapDetector(AppOptions)

\* this.resizeCallbacks once the application has registered its callback
\* (setupResizeHandling), and no resize yet
ResizeStart ==
    [list |-> <<"handleResize">>, log |-> <<>>, did |-> "onResizeCallback",
     threw |-> FALSE]

\* the page but for its tap detector: the constructor's own call of
\* animate() is the first callback waiting
PageApp(b, name) ==
    /\ build = b
    /\ app = AppStart(name)
    /\ rafQueue = 1
    /\ tick = NoTick
    /\ frame = NoFrame
    /\ fu = FuStart
    /\ resizeCallbacks = ResizeStart

Page(b, name) == PageApp(b, name) /\ tap = TapStart

\* The rig and the renderer driven by events.  No action of this
\* specification changes a bloom value, so both builds behave alike in it.
Init ==
    \E args \in CtorArgs :
        Construct(args, StartSize, TRUE) /\ Page("dev", "PepperGhostApp")

----------------------------------------------------------------------------
(* CameraManager operations *)

\* updateDistance that stores the distance and moves the single camera but
\* does not call setupCameras()
UpdateDistanceNoSetup(d) ==
    /\ distance' = d
    /\ userCameraState' = [userCameraState EXCEPT !.distance = d]
    /\ camObj' = [camObj EXCEPT ![singleCamera] =
                      SingleFromState(@, userCameraState', lookAtTarget)]
    /\ last' = [op |-> "updateDistance", arg |-> d, ret |-> "ok",
                pre |-> RigSnapshot, clears |-> 0, draws |-> <<>>,
                released |-> <<>>, cmds |-> <<>>]
    /\ UNCHANGED <<lookAtTarget, quadrantMode, cameras, singleCamera,
                   rendererVars, crossSaved>>

\* updateDistance(distance)
UpdateDistance(d) ==
    /\ Len(camObj) + 4 <= MaxCamObjs
    /\ distance' = d
    /\ userCameraState' = [userCameraState EXCEPT !.distance = d]
    /\ cameras' = FreshRefs(camObj)
    /\ camObj' = [camObj EXCEPT ![singleCamera] =
                      SingleFromState(@, userCameraState', lookAtTarget)]
                 \o SetupCameras(quadrantMode, lookAtTarget, d,
                                 userCameraState.pitch)
    /\ last' = [op |-> "updateDistance", arg |-> d, ret |-> "ok",
                pre |-> RigSnapshot, clears |-> 0, draws |-> <<>>,
                released |-> <<>>, cmds |-> <<>>]
    /\ UNCHANGED <<lookAtTarget, quadrantMode, singleCamera, rendererVars,
                   crossSaved>>

\* setLookAtTarget(target)
SetLookAtTarget(t) ==
    /\ Len(camObj) + 4 <= MaxCamObjs
    /\ lookAtTarget' = t
    /\ cameras' = FreshRefs(camObj)
    /\ camObj' = [camObj EXCEPT ![singleCamera] =
                      SingleFromState(@, userCameraState, t)]
                 \o SetupCameras(quadrantMode, t, distance,
                                 userCameraState.pitch)
    /\ last' = [op |-> "setLookAtTarget", arg |-> t, ret |-> "ok",
                pre |-> RigSnapshot, clears |-> 0, draws |-> <<>>,
                released |-> <<>>, cmds |-> <<>>]
    /\ UNCHANGED <<distance, userCameraState, quadrantMode, singleCamera,
                   rendererVars, crossSaved>>

\* rotateSingleCamera without the closing setupCameras()
RotateSingleCameraNoSetup(deltaYaw, deltaPitch) ==
    /\ userCameraState' =
           [userCameraState EXCEPT
               !.yaw = @ + deltaYaw,
               !.pitch = ClampPitch(@ - deltaPitch)]
    /\ camObj' = [camObj EXCEPT ![singleCamera] =
                      SingleFromState(@, userCameraState', lookAtTarget)]
    /\ last' = [op |-> "rotateSingleCamera", arg |-> <<deltaYaw, deltaPitch>>,
                ret |-> "ok",
                pre |-> RigSnapshot, clears |-> 0, draws |-> <<>>,
                released |-> <<>>, cmds |-> <<>>]
    /\ UNCHANGED <<distance, lookAtTarget, quadrantMode, cameras,
                   singleCamera, rendererVars, crossSaved>>

\* rotateSingleCamera(deltaYaw, deltaPitch)
RotateSingleCamera(deltaYaw, deltaPitch) ==
    /\ Len(camObj) + 4 <= MaxCamObjs
    /\ userCameraState' =
           [userCameraState EXCEPT
               !.yaw = @ + deltaYaw,
               !.pitch = ClampPitch(@ - deltaPitch)]
    /\ cameras' = FreshRefs(camObj)
    /\ camObj' = [camObj EXCEPT ![singleCamera] =
                      SingleFromState(@, userCameraState', lookAtTarget)]
                 \o SetupCameras(quadrantMode, lookAtTarget, distance,
                                 userCameraState'.pitch)
    /\ last' = [op |-> "rotateSingleCamera", arg |-> <<deltaYaw, deltaPitch>>,
                ret |-> "ok",
                pre |-> RigSnapshot, clears |-> 0, draws |-> <<>>,
                released |-> <<>>, cmds |-> <<>>]
    /\ UNCHANGED <<distance, lookAtTarget, quadrantMode, singleCamera,
                   rendererVars, crossSaved>>

\* setQuadrantMode without the `this.quadrantMode === mode` early return
SetQuadrantModeNoSameCheck(mode) ==
    IF mode # "pepper-ghost" /\ mode # "unified-front"
    THEN /\ last' = [op |-> "setQuadrantMode", arg |-> mode, ret |-> "false",
                     pre |-> RigSnapshot, clears |-> 0, draws |-> <<>>,
                     released |-> <<>>, cmds |-> <<>>]
         /\ UNCHANGED <<rigVars, camObj, rendererVars, crossSaved>>
    ELSE /\ Len(camObj) + 4 <= MaxCamObjs
         /\ quadrantMode' = mode
         /\ cameras' = FreshRefs(camObj)
         /\ camObj' = camObj \o SetupCameras(mode, lookAtTarget, distance,
                                             userCameraState.pitch)
         /\ crossSaved' = IF quadrantMode = "pepper-ghost" /\ mode # quadrantMode
                          THEN YawRoll(cameras, camObj)
                          ELSE crossSaved
         /\ last' = [op |-> "setQuadrantMode", arg |-> mode, ret |-> "true",
                     pre |-> RigSnapshot, clears |-> 0, draws |-> <<>>,
                     released |-> <<>>, cmds |-> <<>>]
         /\ UNCHANGED <<distance, lookAtTarget, userCameraState, singleCamera,
                        rendererVars>>

\* setQuadrantMode that calls setupCameras() before it stores the new mode
SetQuadrantModeSetupFirst(mode) ==
    IF mode # "pepper-ghost" /\ mode # "unified-front"
    THEN /\ last' = [op |-> "setQuadrantMode", arg |-> mode, ret |-> "false",
                     pre |-> RigSnapshot, clears |-> 0, draws |-> <<>>,
                     released |-> <<>>, cmds |-> <<>>]
         /\ UNCHANGED <<rigVars, camObj, rendererVars, crossSaved>>
    ELSE IF quadrantMode = mode
    THEN /\ last' = [op |-> "setQuadrantMode", arg |-> mode, ret |-> "false",
                     pre |-> RigSnapshot, clears |-> 0, draws |-> <<>>,
                     released |-> <<>>, cmds |-> <<>>]
         /\ UNCHANGED <<rigVars, camObj, rendererVars, crossSaved>>
    ELSE /\ Len(camObj) + 4 <= MaxCamObjs
         /\ quadrantMode' = mode
         /\ cameras' = FreshRefs(camObj)
         /\ camObj' = camObj \o SetupCameras(quadrantMode, lookAtTarget,
                                             distance, userCameraState.pitch)
         /\ crossSaved' = IF quadrantMode = "pepper-ghost"
                          THEN YawRoll(cameras, camObj)
                          ELSE crossSaved
         /\ last' = [op |-> "setQuadrantMode", arg |-> mode, ret |-> "true",
                     pre |-> RigSnapshot, clears |-> 0, draws |-> <<>>,
                     released |-> <<>>, cmds |-> <<>>]
         /\ UNCHANGED <<distance, lookAtTarget, userCameraState, singleCamera,
                        rendererVars>>

\* setQuadrantMode(mode)
SetQuadrantMode(mode) ==
    IF mode # "pepper-ghost" /\ mode # "unified-front"
    THEN /\ last' = [op |-> "setQuadrantMode", arg |-> mode, ret |-> "false",
                pre |-> RigSnapshot, clears |-> 0, draws |-> <<>>,
                released |-> <<>>, cmds |-> <<>>]
         /\ UNCHANGED <<rigVars, camObj, rendererVars, crossSaved>>
    ELSE IF quadrantMode = mode
    THEN /\ last' = [op |-> "setQuadrantMode", arg |-> mode, ret |-> "false",
                pre |-> RigSnapshot, clears |-> 0, draws |-> <<>>,
                released |-> <<>>, cmds |-> <<>>]
         /\ UNCHANGED <<rigVars, camObj, rendererVars, crossSaved>>
    ELSE /\ Len(camObj) + 4 <= MaxCamObjs
         /\ quadrantMode' = mode
         /\ cameras' = FreshRefs(camObj)
         /\ camObj' = camObj \o SetupCameras(mode, lookAtTarget, distance,
                                             userCameraState.pitch)
         /\ crossSaved' = IF quadrantMode = "pepper-ghost"
                          THEN YawRoll(cameras, camObj)
                          ELSE crossSaved
         /\ last' = [op |-> "setQuadrantMode", arg |-> mode, ret |-> "true",
                pre |-> RigSnapshot, clears |-> 0, draws |-> <<>>,
                released |-> <<>>, cmds |-> <<>>]
         /\ UNCHANGED <<distance, lookAtTarget, userCameraState, singleCamera,
                        rendererVars>>

----------------------------------------------------------------------------
(* RenderManager *)

Range(f) == {f[i] : i \in DOMAIN f}

\* bloomStrength = 1.5, bloomRadius = 0.4, bloomThreshold = 0.1, in tenths
DefaultBloom == [strength |-> 15, radius |-> 4, threshold |-> 1]

\* Viewports with the side CameraManager.handleResize computes:
\* Math.min(width, height) / 4
ViewportsQuarter(size) ==
    LET centerX == Rat(size[1], 2)
        centerY == Rat(size[2], 2)
        viewSize == Rat(Min2(size[1], size[2]), 4)
        half == RDiv(viewSize, <<2, 1>>)
        oneAndHalf == RMul(viewSize, <<3, 2>>)
    IN  << [x |-> RSub(centerX, half), y |-> RAdd(centerY, half),
            width |-> viewSize, height |-> viewSize],
           [x |-> RSub(centerX, half), y |-> RSub(centerY, oneAndHalf),
            width |-> viewSize, height |-> viewSize],
           [x |-> RSub(centerX, oneAndHalf), y |-> RSub(centerY, half),
            width |-> viewSize, height |-> viewSize],
           [x |-> RAdd(centerX, half), y |-> RSub(centerY, half),
            width |-> viewSize, height |-> viewSize] >>

\* the viewports array of renderQuadrants for a canvas of w x h pixels,
\* in slot order top, bottom, left, right (slots 1..4 are the code's 0..3)
Viewports(size) ==
    LET centerX == Rat(size[1], 2)
        centerY == Rat(size[2], 2)
        viewSize == Rat(10 * Min2(size[1], size[2]), 33)
        half == RDiv(viewSize, <<2, 1>>)
        oneAndHalf == RMul(viewSize, <<3, 2>>)
    IN  << [x |-> RSub(centerX, half), y |-> RAdd(centerY, half),
            width |-> viewSize, height |-> viewSize],
           [x |-> RSub(centerX, half), y |-> RSub(centerY, oneAndHalf),
            width |-> viewSize, height |-> viewSize],
           [x |-> RSub(centerX, oneAndHalf), y |-> RSub(centerY, half),
            width |-> viewSize, height |-> viewSize],
           [x |-> RAdd(centerX, half), y |-> RSub(centerY, half),
            width |-> viewSize, height |-> viewSize] >>

\* Math.ceil of a fraction
RCeil(p) == -((-p[1]) \div p[2])

\* Floored with Math.ceil in place of Math.floor
FlooredCeil(vp) ==
    [x |-> RCeil(vp.x), y |-> RCeil(vp.y),
     width |-> RCeil(vp.width), height |-> RCeil(vp.height)]

\* the rectangle handed to setViewport and setScissor: every field floored
Floored(vp) ==
    [x |-> RFloor(vp.x), y |-> RFloor(vp.y),
     width |-> RFloor(vp.width), height |-> RFloor(vp.height)]

\* one call on the WebGLRenderer, on a chain or on a listener, as the calls
\* of a method are issued: its name, the rectangle it is given (if any) and
\* the slot or chain it is about (if any)
NoRect == [x |-> 0, y |-> 0, width |-> 0, height |-> 0]

Cmd(name, rect, slot) == [cmd |-> name, rect |-> rect, slot |-> slot]

\* the full canvas: (0, 0, w, h)
FullCanvas(size) == [x |-> 0, y |-> 0, width |-> size[1], height |-> size[2]]

\* cameras[i] of a JavaScript array: undefined past its end
At(list, i) == IF i <= Len(list) THEN list[i] ELSE Null

\* QuadrantChain with one chain shared by every slot:
\* `composer && this.quadrantComposers[0]`
QuadrantChainShared(i, composerArg, qc) ==
    IF composerArg # <<>> /\ 1 <= Len(qc) THEN 1 ELSE 0

\* the place in quadrantComposers of the chain that draws slot i, 0 for a
\* direct draw: `composer && this.quadrantComposers[i]`
QuadrantChain(i, composerArg, qc) ==
    IF composerArg # <<>> /\ i <= Len(qc) THEN i ELSE 0

\* the camera a chain's RenderPass draws through: the one given to
\* new RenderPass(scene, camera) when the chain was built
ChainCamera(chain) == chain.camera

\* the cameras of cameras[0..3] that initializeQuadrantComposers builds a
\* chain for, in order: `if (!camera) continue`
BoundCameras(list) ==
    SelectSeq([i \in 1..4 |-> At(list, i)], LAMBDA c : c # Null)

\* c.dispose?.() on every chain of quadrantComposers
DisposeAll(qc) == [k \in 1..Len(qc) |-> [qc[k] EXCEPT !.disposed = TRUE]]

\* UnrealBloomPass.name as the build leaves it: esbuild's minifier gives the
\* class a short name
ConstructorName(cls) == IF build = "dev" THEN cls ELSE "e"

\* passes.find(pass => pass.constructor.name === 'UnrealBloomPass') on a
\* chain, every chain having a bloom pass: whether the pass is found
FindBloomPass == ConstructorName("UnrealBloomPass") = "UnrealBloomPass"

\* the chains initializeQuadrantComposers builds: one per camera given, with
\* the reference composer's bloom settings when its bloom pass is found
BuildChains(list, reference, size) ==
    LET bloom == IF reference # <<>> /\ FindBloomPass THEN reference[1].bloom
                 ELSE DefaultBloom
        bound == BoundCameras(list)
    IN  [k \in 1..Len(bound) |->
            [camera |-> bound[k], bloom |-> bloom, size |-> size,
             disposed |-> FALSE]]

\* InitChains without `this.quadrantComposers.forEach(c => c.dispose?.())`
InitChainsNoDispose(qc, list, reference, size) ==
    [qc |-> BuildChains(list, reference, size), released |-> qc]

\* initializeQuadrantComposers(scene, cameras, referenceComposer):
\* this.quadrantComposers after it, and the chains it let go of
InitChains(qc, list, reference, size) ==
    [qc |-> BuildChains(list, reference, size), released |-> DisposeAll(qc)]

\* the for loop of renderQuadrants from slot i on; acc carries the camera
\* heap, the draws issued so far, the cameras whose aspect this call set and
\* the calls made on the renderer and the chains
RECURSIVE QuadrantLoop(_, _, _, _, _, _)
QuadrantLoop(i, list, composerArg, qc, viewports, acc) ==
    IF i > 4 THEN acc
    ELSE IF At(list, i) = Null
    THEN QuadrantLoop(i + 1, list, composerArg, qc, viewports, acc)
    ELSE
        LET camera == list[i]
            viewAspect == RDiv(viewports[i].width, viewports[i].height)
            chain == QuadrantChain(i, composerArg, qc)
            through == IF chain # 0 THEN ChainCamera(qc[chain]) ELSE camera
            draw == [slot |-> i,
                     chain |-> chain,
                     camera |-> through,
                     viewport |-> Floored(viewports[i]),
                     viewAspect |-> viewAspect,
                     aspect |-> IF through = camera THEN viewAspect
                                ELSE acc.heap[through].aspect,
                     aspectSet |-> through \in acc.set \cup {camera}]
        IN  QuadrantLoop(i + 1, list, composerArg, qc, viewports,
                         [heap |-> [acc.heap EXCEPT ![camera].aspect = viewAspect],
                          draws |-> Append(acc.draws, draw),
                          set |-> acc.set \cup {camera},
                          cmds |-> acc.cmds \o
                              << Cmd("setViewport", Floored(viewports[i]), i),
                                 Cmd("setScissor", Floored(viewports[i]), i),
                                 Cmd(IF chain # 0 THEN "composer.render"
                                     ELSE "render", NoRect, i) >>])

\* FrameStart that clears before the full-canvas viewport and scissor are set
FrameStartClearFirst(size) ==
    << Cmd("clear", NoRect, 0),
       Cmd("setViewport", FullCanvas(size), 0),
       Cmd("setScissor", FullCanvas(size), 0) >>

\* "Set full viewport and clear" of renderQuadrants
FrameStart(size) ==
    << Cmd("setViewport", FullCanvas(size), 0),
       Cmd("setScissor", FullCanvas(size), 0),
       Cmd("clear", NoRect, 0) >>

\* renderQuadrants(scene, cameras, composer)
RenderQuadrants(sceneOk, camerasArg, composerArg) ==
    LET arg == [scene |-> sceneOk, cameras |-> camerasArg,
                composer |-> composerArg # <<>>]
    IN
    IF ~sceneOk \/ ~camerasArg.given \/ Len(camerasArg.list) # 4
    THEN /\ last' = [op |-> "renderQuadrants", arg |-> arg, ret |-> "error",
                     pre |-> RigSnapshot, clears |-> 0, draws |-> <<>>,
                     released |-> <<>>, cmds |-> <<>>]
         /\ UNCHANGED <<rigVars, camObj, rendererVars, crossSaved>>
    ELSE
        LET init == IF composerArg # <<>> /\ Len(quadrantComposers) = 0
                    THEN InitChains(quadrantComposers, camerasArg.list,
                                    composerArg, canvasSize)
                    ELSE [qc |-> quadrantComposers, released |-> <<>>]
            loop == QuadrantLoop(1, camerasArg.list, composerArg, init.qc,
                                 Viewports(canvasSize),
                                 [heap |-> camObj, draws |-> <<>>, set |-> {},
                                  cmds |-> <<>>])
            start == FrameStart(canvasSize)
            made == IF composerArg # <<>> /\ Len(quadrantComposers) = 0
                    THEN << Cmd("initializeQuadrantComposers", NoRect, 0) >>
                    ELSE <<>>
        IN  /\ quadrantComposers' = init.qc
            /\ camObj' = loop.heap
            /\ last' = [op |-> "renderQuadrants", arg |-> arg, ret |-> "ok",
                        pre |-> RigSnapshot, clears |-> 1,
                        draws |-> loop.draws, released |-> init.released,
                        cmds |-> start \o made \o loop.cmds]
            /\ UNCHANGED <<rigVars, canvasSize, composer, crossSaved>>

\* renderSingle(scene, camera)
RenderSingle(sceneOk, camera) ==
    LET arg == [scene |-> sceneOk, camera |-> camera] IN
    IF ~sceneOk \/ camera = Null
    THEN /\ last' = [op |-> "renderSingle", arg |-> arg, ret |-> "error",
                     pre |-> RigSnapshot, clears |-> 0, draws |-> <<>>,
                     released |-> <<>>, cmds |-> <<>>]
         /\ UNCHANGED <<rigVars, camObj, rendererVars, crossSaved>>
    ELSE
        LET w == canvasSize[1]
            h == canvasSize[2]
            heap == [camObj EXCEPT ![camera].aspect = Rat(w, h)]
            through == IF composer # <<>> THEN ChainCamera(composer[1])
                       ELSE camera
            draw == [slot |-> 0,
                     chain |-> IF composer # <<>> THEN 1 ELSE 0,
                     camera |-> through,
                     viewport |-> [x |-> 0, y |-> 0, width |-> w, height |-> h],
                     viewAspect |-> Rat(w, h),
                     aspect |-> heap[through].aspect,
                     aspectSet |-> through = camera]
        IN  /\ camObj' = heap
            /\ last' = [op |-> "renderSingle", arg |-> arg, ret |-> "ok",
                        pre |-> RigSnapshot, clears |-> 0, draws |-> <<draw>>,
                        released |-> <<>>,
                        cmds |-> << Cmd("setViewport", FullCanvas(canvasSize), 0),
                                    Cmd("setScissor", FullCanvas(canvasSize), 0),
                                    Cmd(IF composer # <<>> THEN "composer.render"
                                        ELSE "render", NoRect, 0) >>]
            /\ UNCHANGED <<rigVars, rendererVars, crossSaved>>

\* initializeQuadrantComposers(scene, cameras, referenceComposer), called
\* with the rig's cameras as FuApp does
InitializeQuadrantComposers(reference) ==
    LET init == InitChains(quadrantComposers, cameras, reference, canvasSize)
    IN  /\ quadrantComposers' = init.qc
        /\ last' = [op |-> "initializeQuadrantComposers",
                    arg |-> reference # <<>>, ret |-> "ok",
                    pre |-> RigSnapshot, clears |-> 0, draws |-> <<>>,
                    released |-> init.released, cmds |-> <<>>]
        /\ UNCHANGED <<rigVars, camObj, canvasSize, composer, crossSaved>>

\* disposeQuadrantComposers()
DisposeQuadrantComposers ==
    /\ quadrantComposers' = <<>>
    /\ last' = [op |-> "disposeQuadrantComposers", arg |-> Null, ret |-> "ok",
                pre |-> RigSnapshot, clears |-> 0, draws |-> <<>>,
                released |-> DisposeAll(quadrantComposers), cmds |-> <<>>]
    /\ UNCHANGED <<rigVars, camObj, canvasSize, composer, crossSaved>>

\* FuApp.setupPostProcessing up to setComposer: a chain around the single
\* camera with the app's bloom constants, handed to setComposer(composer)
SetComposer ==
    /\ composer = <<>>
    /\ composer' = << [camera |-> singleCamera, bloom |-> DefaultBloom,
                       size |-> canvasSize, disposed |-> FALSE] >>
    /\ last' = [op |-> "setComposer", arg |-> Null, ret |-> "ok",
                pre |-> RigSnapshot, clears |-> 0, draws |-> <<>>,
                released |-> <<>>, cmds |-> <<>>]
    /\ UNCHANGED <<rigVars, camObj, canvasSize, quadrantComposers, crossSaved>>

\* the forEach of updateQuadrantBloom: the chains after it
SetBloom(qc, bloom) ==
    [k \in 1..Len(qc) |->
        IF FindBloomPass THEN [qc[k] EXCEPT !.bloom = bloom] ELSE qc[k]]

\* updateQuadrantBloom(strength, radius, threshold)
UpdateQuadrantBloom(bloom) ==
    /\ quadrantComposers' = SetBloom(quadrantComposers, bloom)
    /\ last' = [op |-> "updateQuadrantBloom", arg |-> bloom, ret |-> "ok",
                pre |-> RigSnapshot, clears |-> 0, draws |-> <<>>,
                released |-> <<>>, cmds |-> <<>>]
    /\ UNCHANGED <<rigVars, camObj, canvasSize, composer, crossSaved>>

\* FuApp.setBloomStrength(value): this.bloomPass.strength = value, then
\* updateQuadrantBloom(value, BLOOM_RADIUS, BLOOM_THRESHOLD)
SetBloomStrength(value) ==
    LET bloom == [DefaultBloom EXCEPT !.strength = value] IN
    /\ composer' = IF composer # <<>>
                   THEN << [composer[1] EXCEPT !.bloom.strength = value] >>
                   ELSE composer
    /\ quadrantComposers' = SetBloom(quadrantComposers, bloom)
    /\ last' = [op |-> "setBloomStrength", arg |-> bloom, ret |-> "ok",
                pre |-> RigSnapshot, clears |-> 0, draws |-> <<>>,
                released |-> <<>>, cmds |-> <<>>]
    /\ UNCHANGED <<rigVars, camObj, canvasSize, crossSaved>>

\* the click handler of FuApp's quadrantModeBtn: setQuadrantMode(the other
\* mode), which returns true, then initializeQuadrantComposers(scene,
\* getCameras(), this.composer)
QuadrantModeClick ==
    LET newMode == IF quadrantMode = "unified-front" THEN "pepper-ghost"
                   ELSE "unified-front"
        refs == FreshRefs(camObj)
        init == InitChains(quadrantComposers, refs, composer, canvasSize)
    IN  /\ Len(camObj) + 4 <= MaxCamObjs
        /\ quadrantMode' = newMode
        /\ cameras' = refs
        /\ camObj' = camObj \o SetupCameras(newMode, lookAtTarget, distance,
                                             userCameraState.pitch)
        /\ crossSaved' = IF quadrantMode = "pepper-ghost"
                         THEN YawRoll(cameras, camObj)
                         ELSE crossSaved
        /\ quadrantComposers' = init.qc
        /\ last' = [op |-> "quadrantModeBtn.click", arg |-> newMode,
                    ret |-> "ok", pre |-> RigSnapshot, clears |-> 0,
                    draws |-> <<>>, released |-> init.released, cmds |-> <<>>]
        /\ UNCHANGED <<distance, lookAtTarget, userCameraState, singleCamera,
                       canvasSize, composer>>

\* handleResize that gives every camera the window's aspect
HandleResizeWindowAspect(heap, size) ==
    [id \in DOMAIN heap |->
        IF id \in Range(cameras) \cup {singleCamera}
        THEN [heap[id] EXCEPT !.aspect = Rat(size[1], size[2])]
        ELSE heap[id]]

\* handleResize(width, height) on the camera heap
HandleResize(heap, size) ==
    [id \in DOMAIN heap |->
        IF id \in Range(cameras) THEN [heap[id] EXCEPT !.aspect = <<1, 1>>]
        ELSE IF id = singleCamera
        THEN [heap[id] EXCEPT !.aspect = Rat(size[1], size[2])]
        ELSE heap[id]]

\* composer.setSize(newWidth, newHeight) on each chain of a list
SetSize(chains, size) ==
    [k \in 1..Len(chains) |-> [chains[k] EXCEPT !.size = size]]

\* how many chains of a list are not at a size
Unsized(chains, size) ==
    Cardinality({k \in 1..Len(chains) : chains[k].size # size})

\* ResizeCalls that runs the listeners before the chains are resized
ResizeCallsListenersFirst(qc, comp, size) ==
    << Cmd("setSize", FullCanvas(size), 0),
       Cmd("setPixelRatio", NoRect, 0),
       Cmd("callback", FullCanvas(size), Unsized(qc \o comp, size)) >>
    \o [k \in 1..Len(qc) |-> Cmd("composer.setSize", FullCanvas(size), k)]
    \o [k \in 1..Len(comp) |-> Cmd("composer.setSize", FullCanvas(size), 0)]

\* the calls of onResize in the order it makes them: renderer.setSize,
\* renderer.setPixelRatio, setSize on each quadrant chain, setSize on
\* this.composer, then the registered callback.  The callback's entry
\* carries the number of chains it finds not yet at the new size.
ResizeCalls(qc, comp, size) ==
    << Cmd("setSize", FullCanvas(size), 0),
       Cmd("setPixelRatio", NoRect, 0) >>
    \o [k \in 1..Len(qc) |-> Cmd("composer.setSize", FullCanvas(size), k)]
    \o [k \in 1..Len(comp) |-> Cmd("composer.setSize", FullCanvas(size), 0)]
    \o << Cmd("callback", FullCanvas(size),
              Unsized(SetSize(qc, size) \o SetSize(comp, size), size)) >>

\* onResize() for a new window size, with the apps' resize callback
\* (cameraManager.handleResize) registered
OnResize(size) ==
    /\ canvasSize' = size
    /\ quadrantComposers' = SetSize(quadrantComposers, size)
    /\ composer' = SetSize(composer, size)
    /\ camObj' = HandleResize(camObj, size)
    /\ last' = [op |-> "onResize", arg |-> size, ret |-> "ok",
                pre |-> RigSnapshot, clears |-> 0, draws |-> <<>>,
                released |-> <<>>,
                cmds |-> ResizeCalls(quadrantComposers, composer, size)]
    /\ UNCHANGED <<rigVars, crossSaved>>

\* the cameras arguments of renderQuadrants: the rig's getCameras(), the
\* same with one entry missing, and a shorter array
CamerasArgs ==
    { [given |-> TRUE, list |-> cameras],
      [given |-> TRUE, list |-> [cameras EXCEPT ![2] = Null]],
      [given |-> TRUE, list |-> SubSeq(cameras, 1, 3)] }

\* the composer argument: none, or the app's composer (this.composer)
ComposerArgs == {<<>>, composer}

\* the (scene, cameras, composer) arguments of renderQuadrants
RenderQuadrantsArgs ==
    {<<TRUE, c, p>> : c \in CamerasArgs, p \in ComposerArgs}
    \cup {<<FALSE, [given |-> TRUE, list |-> cameras], <<>>>>,
          <<TRUE, [given |-> FALSE, list |-> <<>>], <<>>>>}

\* the (scene, camera) arguments of renderSingle
RenderSingleArgs == {<<TRUE, singleCamera>>, <<TRUE, Null>>}

----------------------------------------------------------------------------

Next ==
    \/ (\E d \in DistanceArgs : UpdateDistance(d)) /\ UNCHANGED hostVars
    \/ (\E t \in TargetArgs : SetLookAtTarget(t)) /\ UNCHANGED hostVars
    \/ (\E r \in RotateArgs : RotateSingleCamera(r[1], r[2]))
           /\ UNCHANGED hostVars
    \/ (\E m \in ModeArgs : SetQuadrantMode(m)) /\ UNCHANGED hostVars
    \/ (\E a \in RenderQuadrantsArgs : RenderQuadrants(a[1], a[2], a[3]))
           /\ UNCHANGED hostVars
    \/ (\E a \in RenderSingleArgs : RenderSingle(a[1], a[2]))
           /\ UNCHANGED hostVars
    \/ (\E p \in ComposerArgs : InitializeQuadrantComposers(p))
           /\ UNCHANGED hostVars
    \/ DisposeQuadrantComposers /\ UNCHANGED hostVars
    \/ SetComposer /\ UNCHANGED hostVars
    \/ (\E size \in CanvasSizes : OnResize(size)) /\ UNCHANGED hostVars

Spec == Init /\ [][Next]_vars

----------------------------------------------------------------------------
(* The viewport layout over many canvas sizes: the page opens in a window   *)
(* of some size, frames are rendered and the window is resized.            *)

InitLayout ==
    \E size \in LayoutSizes :
        /\ Construct(<<DefaultPitch, DefaultDistance>>, size, TRUE)
        /\ Page("dev", "PepperGhostApp")

NextLayout ==
    \/ RenderQuadrants(TRUE, [given |-> TRUE, list |-> cameras], <<>>)
           /\ UNCHANGED hostVars
    \/ RenderSingle(TRUE, singleCamera) /\ UNCHANGED hostVars
    \/ (\E size \in CanvasSizes : OnResize(size)) /\ UNCHANGED hostVars

SpecLayout == InitLayout /\ [][NextLayout]_vars

----------------------------------------------------------------------------
(* The apps' animation loop *)

\* the app after the scene part of animate() that moves everything whether
\* or not the loop is paused
SceneStepIgnoresPause(a) ==
    [a EXCEPT !.subject = IF a.mesh THEN (@ + 1) % TimeSteps ELSE @,
              !.time = (@ + 1) % TimeSteps]

\* the app after the scene part of animate(), the lines before `try`.
\* subject is the mesh's rotation.y (the text's breathing phase in FuApp),
\* time is the flame's clock in CakeApp and animationTime in FuApp; both
\* count frames and wrap at TimeSteps.
SceneStep(a) ==
    CASE a.name = "PepperGhostApp" ->
            [a EXCEPT !.subject = IF a.mesh /\ a.isAnimating
                                  THEN (@ + 1) % TimeSteps ELSE @]
      [] a.name = "CakeApp" ->
            [a EXCEPT !.time = IF a.effect THEN (@ + 1) % TimeSteps ELSE @,
                      !.subject = IF a.mesh /\ a.isAnimating
                                  THEN (@ + 1) % TimeSteps ELSE @]
      [] a.name = "FuApp" ->
            IF a.isAnimating /\ a.mesh
            THEN [a EXCEPT !.time = (@ + 1) % TimeSteps,
                           !.subject = (a.time + 1) % TimeSteps]
            ELSE IF ~a.isAnimating
            THEN [a EXCEPT !.time = (@ + 1) % TimeSteps]
            ELSE a

\* a render call in which three.js throws before anything is drawn
RenderThrows(op, arg) ==
    /\ last' = [op |-> op, arg |-> arg, ret |-> "throws",
                pre |-> RigSnapshot, clears |-> 0, draws |-> <<>>,
                released |-> <<>>, cmds |-> <<>>]
    /\ UNCHANGED <<rigVars, camObj, rendererVars, crossSaved>>

\* the render call of animate(): renderSingle or renderQuadrants by the
\* app's viewMode; FuApp passes its composer
RenderCall(threw) ==
    IF app.viewMode = "single"
    THEN IF threw
         THEN RenderThrows("renderSingle",
                           [scene |-> TRUE, camera |-> singleCamera])
         ELSE RenderSingle(TRUE, singleCamera)
    ELSE IF threw
         THEN RenderThrows("renderQuadrants",
                           [scene |-> TRUE,
                            cameras |-> [given |-> TRUE, list |-> cameras],
                            composer |-> app.name = "FuApp" /\ composer # <<>>])
         ELSE RenderQuadrants(TRUE, [given |-> TRUE, list |-> cameras],
                              IF app.name = "FuApp" THEN composer ELSE <<>>)

\* what a run of animate() leaves in tick
TickOf(threw, scheduled) ==
    [parity |-> 1 - tick.parity,
     outcome |-> IF threw THEN "caught" ELSE "ok",
     prev |-> tick.outcome,
     paused |-> ~app.isAnimating,
     mutated |-> SceneStep(app) # app,
     subjectMutated |-> SceneStep(app).subject # app.subject,
     rendered |-> IF app.viewMode = "single" THEN "renderSingle"
                  ELSE "renderQuadrants",
     scheduled |-> scheduled]

\* animate() that asks for the next frame after the render call, inside
\* the try block
AnimateSchedulesLast(threw) ==
    /\ rafQueue > 0
    /\ rafQueue' = (rafQueue - 1) + (IF threw THEN 0 ELSE 1)
    /\ app' = SceneStep(app)
    /\ tick' = TickOf(threw, IF threw THEN 0 ELSE 1)
    /\ RenderCall(threw)
    /\ UNCHANGED <<renderer, build>>

\* one run of animate(), called back by the browser: it asks for the next
\* frame first, moves the scene, then renders inside try/catch.  threw says
\* whether the render call throws.
Animate(threw) ==
    /\ rafQueue > 0
    /\ rafQueue' = (rafQueue - 1) + 1
    /\ app' = SceneStep(app)
    /\ tick' = TickOf(threw, 1)
    /\ RenderCall(threw)
    /\ UNCHANGED <<renderer, build>>

\* toggleAnimation() (the space key in FuApp)
ToggleAnimation ==
    /\ app' = [app EXCEPT !.isAnimating = ~@]
    /\ UNCHANGED <<rigVars, camObj, rendererVars, last, crossSaved,
                   renderer, build, rafQueue, tick>>

\* toggleViewMode()
ToggleViewMode ==
    /\ app' = [app EXCEPT !.viewMode = IF @ = "quadrant" THEN "single"
                                       ELSE "quadrant"]
    /\ UNCHANGED <<rigVars, camObj, rendererVars, last, crossSaved,
                   renderer, build, rafQueue, tick>>

\* the model (CakeApp, with its flame) or the text (FuApp, at the reveal)
\* arrives
LoadSubject ==
    /\ ~app.mesh
    /\ app' = [app EXCEPT !.mesh = TRUE, !.effect = (app.name = "CakeApp")]
    /\ UNCHANGED <<rigVars, camObj, rendererVars, last, crossSaved,
                   renderer, build, rafQueue, tick>>

\* the rig and the renderer as FuApp's constructor leaves them:
\* new CameraManager(0, 6.8), setQuadrantMode('unified-front'),
\* setupPostProcessing()
FuAppStart(size) ==
    LET state == [pitch |-> FuPitch, yaw |-> 0,
                  distance |-> SingleViewDistance(FuDistance)]
        first == SetupCameras("pepper-ghost", Origin, FuDistance, FuPitch)
        single == SingleFromState(
                      [yaw |-> 0, roll |-> 0, position |-> Origin,
                       lookAt |-> Origin, aspect |-> Rat(size[1], size[2])],
                      state, Origin)
        heap == first \o <<single>>
                    \o SetupCameras("unified-front", Origin, FuDistance, FuPitch)
        chain == << [camera |-> 5, bloom |-> DefaultBloom, size |-> size,
                     disposed |-> FALSE] >>
    IN  /\ distance = FuDistance
        /\ lookAtTarget = Origin
        /\ userCameraState = state
        /\ quadrantMode = "unified-front"
        /\ cameras = FreshRefs(first \o <<single>>)
        /\ camObj = heap
        /\ singleCamera = 5
        /\ canvasSize = size
        /\ renderer = "WebGLRenderer"
        /\ composer = chain
        /\ quadrantComposers
               = InitChains(<<>>, FreshRefs(first \o <<single>>), chain, size).qc
        /\ crossSaved = YawRoll(FreshRefs(<<>>), first)
        /\ last = [op |-> "initializeQuadrantComposers", arg |-> TRUE,
                   ret |-> "ok",
                   pre |-> [quadrantMode |-> "unified-front",
                            cameras |-> FreshRefs(first \o <<single>>),
                            placed |-> Placed(FreshRefs(first \o <<single>>),
                                              heap),
                            userCameraState |-> state,
                            distance |-> FuDistance,
                            lookAtTarget |-> Origin],
                   clears |-> 0, draws |-> <<>>, released |-> <<>>,
                   cmds |-> <<>>]

InitLoop ==
    \E name \in Apps, b \in Builds :
        /\ Page(b, name)
        /\ IF name = "FuApp" THEN FuAppStart(StartSize)
           ELSE Construct(<<DefaultPitch, DefaultDistance>>, StartSize, TRUE)

NextLoop ==
    \/ (\E threw \in BOOLEAN : Animate(threw)) /\ UNCHANGED pageVars
    \/ ToggleAnimation /\ UNCHANGED pageVars
    \/ ToggleViewMode /\ UNCHANGED pageVars
    \/ LoadSubject /\ UNCHANGED pageVars

\* the browser runs a waiting animation-frame callback (every run of
\* animate() changes tick)
SpecLoop ==
    /\ InitLoop
    /\ [][NextLoop]_vars
    /\ WF_tick((Animate(TRUE) \/ Animate(FALSE)) /\ UNCHANGED pageVars)

----------------------------------------------------------------------------
(* One run of animate() statement by statement.  JavaScript runs a         *)
(* callback to completion: an event handler or another frame callback      *)
(* starts only when no function is running.                                *)

\* animate() that renders before it moves the scene
AnimateBodyRenderFirst == <<"requestAnimationFrame", "render", "scene">>

\* the statements of animate() in the order of the source: ask for the next
\* frame, the scene update, the try block with the render call
AnimateBody == <<"requestAnimationFrame", "scene", "render">>

\* rotation and animation time, what a frame draws of the app
Scene(a) == <<a.subject, a.time>>

\* the browser calls the waiting callback
AnimateBegin ==
    /\ frame.at = 0
    /\ rafQueue > 0
    /\ rafQueue' = rafQueue - 1
    /\ frame' = [at |-> 1, stepped |-> FALSE, rendering |-> FALSE]
    /\ UNCHANGED <<rigVars, camObj, rendererVars, last, crossSaved,
                   renderer, build, app, tick, fu, tap, resizeCallbacks>>

\* the statement at frame.at, the render call up to its start; after the
\* last statement animate() returns
AnimateStatement ==
    /\ frame.at \in 1..Len(AnimateBody)
    /\ ~frame.rendering
    /\ LET stmt == AnimateBody[frame.at]
           next == IF frame.at = Len(AnimateBody) THEN 0 ELSE frame.at + 1
       IN  /\ rafQueue' = IF stmt = "requestAnimationFrame"
                          THEN rafQueue + 1 ELSE rafQueue
           /\ app' = IF stmt = "scene" THEN SceneStep(app) ELSE app
           /\ frame' = IF stmt = "render"
                       THEN [frame EXCEPT !.rendering = TRUE]
                       ELSE [frame EXCEPT !.at = next,
                                          !.stepped = @ \/ stmt = "scene"]
    /\ UNCHANGED <<rigVars, camObj, rendererVars, last, crossSaved,
                   renderer, build, tick, fu, tap, resizeCallbacks>>

\* the render call returns, or throws into the catch block
RenderReturns(threw) ==
    /\ frame.rendering
    /\ RenderCall(threw)
    /\ frame' = [frame EXCEPT !.rendering = FALSE,
                              !.at = IF @ = Len(AnimateBody) THEN 0 ELSE @ + 1]
    /\ UNCHANGED <<renderer, build, app, rafQueue, tick, fu, tap,
                   resizeCallbacks>>

InitTick ==
    \E name \in Apps :
        /\ Page("dev", name)
        /\ IF name = "FuApp" THEN FuAppStart(StartSize)
           ELSE Construct(<<DefaultPitch, DefaultDistance>>, StartSize, TRUE)

NextTick ==
    \/ AnimateBegin
    \/ AnimateStatement
    \/ \E threw \in BOOLEAN : RenderReturns(threw)
    \/ frame.at = 0 /\ ToggleAnimation /\ UNCHANGED pageVars
    \/ frame.at = 0 /\ ToggleViewMode /\ UNCHANGED pageVars
    \/ frame.at = 0 /\ LoadSubject /\ UNCHANGED pageVars

SpecTick == InitTick /\ [][NextTick]_vars

----------------------------------------------------------------------------
(* FuApp's bloom controls, on the page as served by vite (dev) and as      *)
(* built by vite build (minified)                                          *)

\* the bloom strength slider, in tenths
StrengthArgs == {0, 20, 50}

\* (strength, radius, threshold) of updateQuadrantBloom, in tenths
BloomArgs ==
    {[strength |-> 30, radius |-> 10, threshold |-> 5],
     [strength |-> 0, radius |-> 0, threshold |-> 0]}

InitBloom ==
    \E b \in Builds : Page(b, "FuApp") /\ FuAppStart(StartSize)

NextBloom ==
    \/ (\E v \in StrengthArgs : SetBloomStrength(v)) /\ UNCHANGED hostVars
    \/ (\E b \in BloomArgs : UpdateQuadrantBloom(b)) /\ UNCHANGED hostVars
    \/ QuadrantModeClick /\ UNCHANGED hostVars
    \/ RenderQuadrants(TRUE, [given |-> TRUE, list |-> cameras], composer)
           /\ UNCHANGED hostVars
    \/ (\E size \in CanvasSizes : OnResize(size)) /\ UNCHANGED hostVars

SpecBloom == InitBloom /\ [][NextBloom]_vars

----------------------------------------------------------------------------
(* FuApp's rig between frames: the text arrives, the distance slider, the  *)
(* mode button, window resizes                                             *)

\* values of FuApp's camera distance slider, in hundredths
FuDistanceArgs == {300, 450, 900, 1200}

NextFuRig ==
    \/ SetLookAtTarget(Origin) /\ UNCHANGED hostVars
    \/ (\E d \in FuDistanceArgs : UpdateDistance(d)) /\ UNCHANGED hostVars
    \/ QuadrantModeClick /\ UNCHANGED hostVars
    \/ RenderQuadrants(TRUE, [given |-> TRUE, list |-> cameras], composer)
           /\ UNCHANGED hostVars
    \/ RenderSingle(TRUE, singleCamera) /\ UNCHANGED hostVars
    \/ (\E size \in CanvasSizes : OnResize(size)) /\ UNCHANGED hostVars

SpecFuRig == InitBloom /\ [][NextFuRig]_vars

----------------------------------------------------------------------------
(* FuApp's charge sequence: three taps, the explosion, the reveal, resets  *)

\* a sequence without its i-th element
Without(seq, i) == SubSeq(seq, 1, i - 1) \o SubSeq(seq, i + 1, Len(seq))

\* showOrb(index): `if (index >= this.energyOrbs.length) return`
ShowOrb(f, index) ==
    IF f.orbs = "loaded" THEN [f EXCEPT !.orbVisible[index + 1] = TRUE] ELSE f

\* onTapCharge() that counts a tap whatever the state
OnTapChargeUnguarded(f) ==
    LET n == f.tapCount + 1
        counted == [f EXCEPT !.tapCount = n, !.did = "tap"]
    IN  IF n = 1 THEN ShowOrb(counted, 1)
        ELSE IF n = 2 THEN ShowOrb(counted, 2)
        ELSE IF n = 3 THEN [counted EXCEPT !.timers = @ + 1]
        ELSE counted

\* onTapCharge(): fu after it
OnTapCharge(f) ==
    IF f.isRevealed \/ f.isExploding THEN [f EXCEPT !.did = "tap-ignored"]
    ELSE OnTapChargeUnguarded(f)

\* the tap detector emits 'required-tap'
RequiredTap ==
    /\ fu.tapCount < MaxTapCount
    /\ fu.timers < MaxPending
    /\ fu' = OnTapCharge(fu)
    /\ UNCHANGED <<rigVars, camObj, rendererVars, last, crossSaved,
                   renderer, build, app, rafQueue, tick, frame, tap,
                   resizeCallbacks>>

\* the 500 ms timer of the third tap fires: triggerExplosion(), whose first
\* run of convergeAnimation asks for the next frame
ExplosionTimer ==
    /\ fu.timers > 0
    /\ Len(fu.converge) < MaxPending
    /\ fu' = [fu EXCEPT !.timers = @ - 1, !.isExploding = TRUE,
                        !.converge = Append(@, ConvergeFrames),
                        !.did = "triggerExplosion"]
    /\ UNCHANGED <<rigVars, camObj, rendererVars, last, crossSaved,
                   renderer, build, app, rafQueue, tick, frame, tap,
                   resizeCallbacks>>

\* flashExplosion(): the orbs are hidden; with a text mesh the text is
\* shown and the first run of scaleUp asks for the next frame
FlashExplosion(f) ==
    LET hidden == [f EXCEPT !.orbVisible = <<FALSE, FALSE, FALSE>>]
    IN  IF f.text = "loaded"
        THEN [hidden EXCEPT !.textVisible = TRUE,
                            !.scaleUp = Append(@, ScaleFrames)]
        ELSE hidden

\* a frame callback of convergeAnimation: it asks for another frame until
\* the 500 ms are over, then calls flashExplosion()
ConvergeFrame(i) ==
    /\ i \in 1..Len(fu.converge)
    /\ fu.converge[i] > 1 \/ Len(fu.scaleUp) < MaxPending
    /\ fu' = IF fu.converge[i] > 1
             THEN [fu EXCEPT !.converge[i] = @ - 1, !.did = "converge"]
             ELSE FlashExplosion([fu EXCEPT !.converge = Without(@, i),
                                            !.did = "flashExplosion"])
    /\ UNCHANGED <<rigVars, camObj, rendererVars, last, crossSaved,
                   renderer, build, app, rafQueue, tick, frame, tap,
                   resizeCallbacks>>

\* a frame callback of scaleUp: it asks for another frame until the 400 ms
\* are over, then sets isAnimating and isRevealed and clears isExploding
ScaleUpFrame(i) ==
    /\ i \in 1..Len(fu.scaleUp)
    /\ IF fu.scaleUp[i] > 1
       THEN /\ fu' = [fu EXCEPT !.scaleUp[i] = @ - 1, !.did = "scaleUp"]
            /\ app' = app
       ELSE /\ fu' = [fu EXCEPT !.scaleUp = Without(@, i),
                                !.isRevealed = TRUE, !.isExploding = FALSE,
                                !.did = "revealed"]
            /\ app' = [app EXCEPT !.isAnimating = TRUE]
    /\ UNCHANGED <<rigVars, camObj, rendererVars, last, crossSaved,
                   renderer, build, rafQueue, tick, frame, tap,
                   resizeCallbacks>>

\* what resetEnergySequence() and reset() both do to the charge sequence:
\* the counters and flags, the text hidden, the first orb alone visible
ResetState(f) ==
    [f EXCEPT !.tapCount = 0, !.isRevealed = FALSE, !.isExploding = FALSE,
              !.textVisible = FALSE,
              !.orbVisible = IF f.orbs = "loaded" THEN <<TRUE, FALSE, FALSE>>
                             ELSE @,
              !.did = "reset", !.wasReset = TRUE]

\* resetEnergySequence(), on 'long-press'
ResetEnergySequence ==
    /\ fu' = ResetState(fu)
    /\ app' = [app EXCEPT !.isAnimating = FALSE, !.time = 0]
    /\ UNCHANGED <<rigVars, camObj, rendererVars, last, crossSaved,
                   renderer, build, rafQueue, tick, frame, tap,
                   resizeCallbacks>>

\* reset(), on the key r: it also puts the text back in place and calls
\* setBloomStrength(BLOOM_STRENGTH)
Reset ==
    /\ fu' = ResetState(fu)
    /\ app' = [app EXCEPT !.isAnimating = FALSE, !.time = 0, !.subject = 0]
    /\ SetBloomStrength(DefaultBloom.strength)
    /\ UNCHANGED <<renderer, build, rafQueue, tick, frame, tap,
                   resizeCallbacks>>

\* create3DText(): the font arrives, the hidden text mesh is added and the
\* rig is aimed at modelCenter
TextLoads ==
    /\ fu.text = "pending"
    /\ fu' = [fu EXCEPT !.text = "loaded", !.did = "create3DText"]
    /\ app' = [app EXCEPT !.mesh = TRUE]
    /\ SetLookAtTarget(Origin)
    /\ UNCHANGED <<renderer, build, rafQueue, tick, frame, tap,
                   resizeCallbacks>>

\* create3DText(): loading the font fails, textMesh stays null
TextFails ==
    /\ fu.text = "pending"
    /\ fu' = [fu EXCEPT !.text = "failed", !.did = "create3DText"]
    /\ UNCHANGED <<rigVars, camObj, rendererVars, last, crossSaved,
                   renderer, build, app, rafQueue, tick, frame, tap,
                   resizeCallbacks>>

\* createEnergyOrbs(): the font arrives and the 3 orbs are made, the first
\* visible; or loading fails and energyOrbs stays empty
OrbsSettle(ok) ==
    /\ fu.orbs = "pending"
    /\ fu' = IF ok THEN [fu EXCEPT !.orbs = "loaded",
                                   !.orbVisible = <<TRUE, FALSE, FALSE>>,
                                   !.did = "createEnergyOrbs"]
             ELSE [fu EXCEPT !.orbs = "failed", !.did = "createEnergyOrbs"]
    /\ UNCHANGED <<rigVars, camObj, rendererVars, last, crossSaved,
                   renderer, build, app, rafQueue, tick, frame, tap,
                   resizeCallbacks>>

InitFu == Page("dev", "FuApp") /\ FuAppStart(StartSize)

NextFu ==
    \/ RequiredTap
    \/ ExplosionTimer
    \/ \E i \in 1..MaxPending : ConvergeFrame(i)
    \/ \E i \in 1..MaxPending : ScaleUpFrame(i)
    \/ ResetEnergySequence
    \/ Reset
    \/ TextLoads
    \/ TextFails
    \/ \E ok \in BOOLEAN : OrbsSettle(ok)

\* timers fire, frame callbacks are called and the font request settles
SpecFu ==
    /\ InitFu
    /\ [][NextFu]_vars
    /\ WF_fu(ExplosionTimer)
    /\ WF_fu(\E i \in 1..MaxPending : ConvergeFrame(i))
    /\ WF_fu(\E i \in 1..MaxPending : ScaleUpFrame(i))
    /\ WF_fu(TextLoads \/ TextFails)

----------------------------------------------------------------------------
(* The TapDetector.  Date.now() is tap.now, counted in hundreds of         *)
(* milliseconds; tap.timers holds the pending setTimeout callbacks of the  *)
(* page, each with the id setTimeout returned and the time it is due.      *)
(* tap.event names the last event handled, tap.emitted what it emitted and *)
(* tap.recorded what recordTap returned.  tap.log holds the times of the   *)
(* 'TAP from' lines logged since the last 'REQUIRED-TAP DETECTED' line or  *)
(* stop(), and tap.down, for each pointer, the time of its pointerdown     *)
(* while no pointerup, pointercancel or stop() has followed it (0: none).  *)

\* the last n elements of s
LastOf(s, n) == IF Len(s) <= n THEN s ELSE SubSeq(s, Len(s) - n + 1, Len(s))

\* this.tapTimestamps.filter(time => now - time < this.config.tapWindow)
RECURSIVE FilterRecent(_, _, _)
FilterRecent(stamps, now, window) ==
    IF stamps = <<>> THEN <<>>
    ELSE LET rest == FilterRecent(Tail(stamps), now, window)
         IN IF now - Head(stamps) < window THEN <<Head(stamps)>> \o rest
            ELSE rest

\* recordTap() with the cooldown measured from the last tap recorded
\* whatever its result
RecordTapNoCooldown(t) ==
    LET stamps == Append(FilterRecent(t.tapTimestamps, t.now,
                                      t.config.tapWindow), t.now)
        enough == Len(stamps) >= t.config.requiredTaps
    IN [t EXCEPT !.lastTapTime = t.now,
                 !.tapTimestamps = IF enough THEN <<>> ELSE stamps,
                 !.log = IF enough THEN <<>>
                         ELSE LastOf(Append(t.log, t.now),
                                     t.config.requiredTaps),
                 !.recorded = TRUE,
                 !.emitted = IF enough THEN "required-tap" ELSE "none"]

\* recordTap(source); handleRequiredTap() clears the time stamps and emits
RecordTap(t) ==
    IF t.now - t.lastTapTime < t.config.cooldown
    THEN [t EXCEPT !.recorded = FALSE, !.emitted = "none"]
    ELSE RecordTapNoCooldown(t)

\* clearLongPress(): clearTimeout of the timer held, and the state emptied
ClearLongPress(t) ==
    [t EXCEPT !.timers = {x \in t.timers : x.id # t.longPressState.timer},
              !.longPressState = NoLongPress]

\* startLongPress(event) that leaves the timer of the press before pending
StartLongPressKeeping(t, pointerId) ==
    [t EXCEPT !.timers = t.timers \cup
                  {[id |-> t.nextTimer,
                    due |-> t.now + t.config.longPressDuration]},
              !.nextTimer = t.nextTimer + 1,
              !.longPressState = [startTime |-> t.now,
                                  pointerId |-> pointerId,
                                  timer |-> t.nextTimer,
                                  isActive |-> TRUE]]

\* startLongPress(event)
StartLongPress(t, pointerId) ==
    StartLongPressKeeping(ClearLongPress(t), pointerId)

TapStep(t) ==
    /\ tap' = t
    /\ UNCHANGED <<rigVars, camObj, rendererVars, last, crossSaved,
                   renderer, build, app, rafQueue, tick, frame, fu,
                   resizeCallbacks>>

\* start()
Start ==
    TapStep([tap EXCEPT !.isActive = TRUE, !.event = "start",
                        !.recorded = FALSE, !.emitted = "none"])

\* stop()
Stop ==
    TapStep([ClearLongPress(tap) EXCEPT
                 !.isActive = FALSE, !.tapTimestamps = <<>>,
                 !.log = <<>>, !.down = [p \in Pointers |-> 0],
                 !.event = "stop", !.recorded = FALSE, !.emitted = "none"])

\* handleMotion(event) with the acceleration over the threshold
HandleMotion ==
    /\ tap.isActive
    /\ TapStep([RecordTap(tap) EXCEPT !.event = "devicemotion"])

\* handlePointer(event): a pointerdown on the target element
HandlePointer(pointerId) ==
    /\ tap.isActive
    /\ tap.nextTimer <= MaxTimers
    /\ TapStep([StartLongPress(RecordTap(tap), pointerId) EXCEPT
                    !.down[pointerId] = tap.now,
                    !.event = "pointerdown"])

\* handlePointerUp(event) and handlePointerCancel(event)
HandlePointerUp(pointerId, event) ==
    /\ tap.isActive
    /\ LET t == IF /\ tap.longPressState.isActive
                   /\ tap.longPressState.pointerId = pointerId
                THEN ClearLongPress(tap)
                ELSE tap
       IN TapStep([t EXCEPT !.down[pointerId] = 0, !.event = event,
                            !.recorded = FALSE, !.emitted = "none"])

\* the callback of a timer that is due: handleLongPress()
LongPressTimer ==
    \E x \in tap.timers :
        /\ x.due <= tap.now
        /\ TapStep([tap EXCEPT !.timers = tap.timers \ {x},
                               !.longPressState.isActive = FALSE,
                               !.event = "timer", !.recorded = FALSE,
                               !.emitted = "long-press"])

\* a hundred milliseconds pass
Clock ==
    /\ tap.now < MaxClock
    /\ TapStep([tap EXCEPT !.now = tap.now + 1, !.event = "clock",
                           !.recorded = FALSE, !.emitted = "none"])

InitTap ==
    /\ PageApp("dev", "FuApp")
    /\ FuAppStart(StartSize)
    /\ \E options \in TapOptions : tap = NewTapDetector(options)

NextTap ==
    \/ Start
    \/ Stop
    \/ HandleMotion
    \/ \E p \in Pointers : HandlePointer(p)
    \/ \E p \in Pointers :
           \E event \in {"pointerup", "pointercancel"} :
               HandlePointerUp(p, event)
    \/ LongPressTimer
    \/ Clock

SpecTap == InitTap /\ [][NextTap]_vars

----------------------------------------------------------------------------
(* The resize callbacks of the RenderManager.  A callback is known by what *)
(* it does when called: the application's own one (handleResize), one that *)
(* returns, one that throws, and one that registers a further callback.    *)
(* resizeCallbacks.list is this.resizeCallbacks; log holds, for the last   *)
(* resize, the calls made: the index of the callback in the array, the     *)
(* (width, height) passed and whether the call threw; threw tells whether  *)
(* an exception left onResize().                                           *)

CallbackKinds == {"handleResize", "returns", "throws", "registers"}

\* callback(newWidth, newHeight) for the callback at index i
CallbackCall(list, i, size) ==
    [callback |-> i, size |-> size, threw |-> list[i] = "throws"]

\* the array after the callback at index i has run
CallbackEffect(list, i) ==
    IF list[i] = "registers" /\ Len(list) < MaxCallbacks
    THEN Append(list, "returns")
    ELSE list

\* this.resizeCallbacks.forEach(...) from index i on, the callbacks called
\* with no try around them; n is the length of the array when forEach began
RECURSIVE ForEachNoCatch(_, _, _, _, _)
ForEachNoCatch(list, i, n, size, log) ==
    IF i > n
    THEN [list |-> list, log |-> log, did |-> "onResize", threw |-> FALSE]
    ELSE LET call == CallbackCall(list, i, size)
         IN IF call.threw
            THEN [list |-> list, log |-> Append(log, call),
                  did |-> "onResize", threw |-> TRUE]
            ELSE ForEachNoCatch(CallbackEffect(list, i), i + 1, n, size,
                                Append(log, call))

\* this.resizeCallbacks.forEach(...) from index i on, each call in its try
RECURSIVE ForEachCallback(_, _, _, _, _)
ForEachCallback(list, i, n, size, log) ==
    IF i > n
    THEN [list |-> list, log |-> log, did |-> "onResize", threw |-> FALSE]
    ELSE ForEachCallback(CallbackEffect(list, i), i + 1, n, size,
                         Append(log, CallbackCall(list, i, size)))

\* onResizeCallback(callback)
OnResizeCallback(callback) ==
    /\ Len(resizeCallbacks.list) < MaxCallbacks
    /\ resizeCallbacks' = [resizeCallbacks EXCEPT
                               !.list = Append(@, callback),
                               !.did = "onResizeCallback"]
    /\ UNCHANGED <<rigVars, camObj, rendererVars, last, crossSaved,
                   renderer, build, app, rafQueue, tick, frame, fu, tap>>

\* the window's resize event: onResize()
ResizeEvent(size) ==
    /\ OnResize(size)
    /\ resizeCallbacks' = ForEachCallback(resizeCallbacks.list, 1,
                                          Len(resizeCallbacks.list), size,
                                          <<>>)
    /\ UNCHANGED <<renderer, build, app, rafQueue, tick, frame, fu, tap>>

NextResize ==
    \/ \E callback \in CallbackKinds \ {"handleResize"} :
           OnResizeCallback(callback)
    \/ \E size \in CanvasSizes : ResizeEvent(size)

SpecResize == InitBloom /\ [][NextResize]_vars

----------------------------------------------------------------------------
(* A RenderManager built with or without a canvas, and the calls made on   *)
(* the instance.  The constructor returns early without a canvas: `new`    *)
(* still yields the object, with none of its fields set.                   *)

\* a method reaches this.renderer.domElement or this.renderer.setSize while
\* this.renderer is undefined
TypeError(op, arg) ==
    /\ last' = [op |-> op, arg |-> arg, ret |-> "TypeError",
                pre |-> RigSnapshot, clears |-> 0, draws |-> <<>>,
                released |-> <<>>, cmds |-> <<>>]
    /\ UNCHANGED <<rigVars, camObj, rendererVars, crossSaved>>

\* renderQuadrants(scene, cameras, composer) on the instance: the argument
\* check comes before the first use of this.renderer
CallRenderQuadrants(sceneOk, camerasArg, composerArg) ==
    IF /\ renderer = "undefined"
       /\ sceneOk /\ camerasArg.given /\ Len(camerasArg.list) = 4
    THEN TypeError("renderQuadrants",
                   [scene |-> sceneOk, cameras |-> camerasArg,
                    composer |-> composerArg # <<>>])
    ELSE RenderQuadrants(sceneOk, camerasArg, composerArg)

\* renderSingle(scene, camera) on the instance
CallRenderSingle(sceneOk, camera) ==
    IF renderer = "undefined" /\ sceneOk /\ camera # Null
    THEN TypeError("renderSingle", [scene |-> sceneOk, camera |-> camera])
    ELSE RenderSingle(sceneOk, camera)

\* onResize() on the instance (the window's resize event reaches it only
\* when the constructor got as far as setupEventListeners)
CallOnResize(size) ==
    IF renderer = "undefined" THEN TypeError("onResize", size)
    ELSE OnResize(size)

\* initializeQuadrantComposers(scene, cameras, null) on the instance: its
\* first statement is this.quadrantComposers.forEach(...)
CallInitializeQuadrantComposers ==
    IF renderer = "undefined"
    THEN TypeError("initializeQuadrantComposers", FALSE)
    ELSE InitializeQuadrantComposers(<<>>)

\* getRenderer()
GetRenderer ==
    /\ last' = [op |-> "getRenderer", arg |-> Null, ret |-> renderer,
                pre |-> RigSnapshot, clears |-> 0, draws |-> <<>>,
                released |-> <<>>, cmds |-> <<>>]
    /\ UNCHANGED <<rigVars, camObj, rendererVars, crossSaved>>

InitCtor ==
    \E args \in CtorArgs, canvas \in BOOLEAN :
        Construct(args, StartSize, canvas) /\ Page("dev", "PepperGhostApp")

NextCtor ==
    \/ (\E a \in RenderQuadrantsArgs :
            CallRenderQuadrants(a[1], a[2], a[3])) /\ UNCHANGED hostVars
    \/ (\E a \in RenderSingleArgs : CallRenderSingle(a[1], a[2]))
           /\ UNCHANGED hostVars
    \/ (\E size \in CanvasSizes : CallOnResize(size)) /\ UNCHANGED hostVars
    \/ CallInitializeQuadrantComposers /\ UNCHANGED hostVars
    \/ GetRenderer /\ UNCHANGED hostVars

SpecCtor == InitCtor /\ [][NextCtor]_vars

----------------------------------------------------------------------------
(* The quadrant cameras reached by index                                   *)

\* the index arguments of getCamera and updateAspect: the 4 slots, one
\* below and one above
IndexArgs == -1..4

\* the aspect arguments of updateAspect
AspectArgs == {<<1, 1>>, <<4, 3>>}

\* this.cameras[index] of a JavaScript array: the reference, or Null for
\* undefined
CameraAt(index) ==
    IF index >= 0 /\ index < Len(cameras) THEN cameras[index + 1] ELSE Null

\* getCamera(index)
GetCamera(index) ==
    /\ last' = [op |-> "getCamera", arg |-> [index |-> index, aspect |-> <<>>],
                ret |-> IF CameraAt(index) = Null THEN "undefined"
                        ELSE "camera",
                pre |-> RigSnapshot, clears |-> 0, draws |-> <<>>,
                released |-> <<>>, cmds |-> <<>>]
    /\ UNCHANGED <<rigVars, camObj, rendererVars, crossSaved>>

\* updateAspect(index, aspect)
UpdateAspect(index, aspect) ==
    /\ camObj' = IF CameraAt(index) # Null
                 THEN [camObj EXCEPT ![CameraAt(index)].aspect = aspect]
                 ELSE camObj
    /\ last' = [op |-> "updateAspect",
                arg |-> [index |-> index, aspect |-> aspect],
                ret |-> IF CameraAt(index) # Null THEN "ok" ELSE "undefined",
                pre |-> RigSnapshot, clears |-> 0, draws |-> <<>>,
                released |-> <<>>, cmds |-> <<>>]
    /\ UNCHANGED <<rigVars, rendererVars, crossSaved>>

InitIndex ==
    Construct(<<DefaultPitch, DefaultDistance>>, StartSize, TRUE)
        /\ Page("dev", "PepperGhostApp")

NextIndex ==
    \/ (\E i \in IndexArgs : GetCamera(i)) /\ UNCHANGED hostVars
    \/ (\E i \in IndexArgs, a \in AspectArgs : UpdateAspect(i, a))
           /\ UNCHANGED hostVars

SpecIndex == InitIndex /\ [][NextIndex]_vars

----------------------------------------------------------------------------
(* Properties *)

QuadrantFrame == last.op = "renderQuadrants" /\ last.ret = "ok"

DrawsOf == {last.draws[k] : k \in 1..Len(last.draws)}

\* a cameras argument that supplies 4 cameras
Supplies4(c) ==
    c.given /\ Len(c.list) = 4 /\ \A i \in 1..4 : c.list[i] # Null

\* C1: in a quadrant frame rendered with post-process chains, slot i is
\* drawn by the chain at place i of quadrantComposers and by no other, that
\* chain draws through the camera it was built around, and no chain is
\* rendered for two viewports of the frame.
ChainPerSlot ==
    (QuadrantFrame /\ last.arg.composer) =>
        /\ \A d \in DrawsOf :
              /\ d.slot <= Len(quadrantComposers) => d.chain = d.slot
              /\ d.chain # 0 =>
                    /\ d.chain = d.slot
                    /\ d.camera = quadrantComposers[d.chain].camera
        /\ \A j, k \in 1..Len(last.draws) :
              (j # k /\ last.draws[j].chain # 0) =>
                  last.draws[j].chain # last.draws[k].chain

\* a frame of 4 chain draws whose chains were built before the rig replaced
\* its cameras
ChainPerSlotWitness ==
    /\ QuadrantFrame /\ last.arg.composer
    /\ Len(last.draws) = 4
    /\ \A d \in DrawsOf : d.chain # 0 /\ d.camera \notin Range(cameras)

\* C2: at every draw of renderQuadrants and renderSingle the camera the draw
\* goes through has the aspect of the viewport set for the draw, and that
\* aspect was assigned to it earlier in the same call (stated for the calls
\* that pass a scene and 4 cameras, with no chains or 4 chains in place).
AspectSetBeforeDraw ==
    /\ last.op = "renderSingle" =>
          \A d \in DrawsOf : d.aspect = d.viewAspect /\ d.aspectSet
    /\ (/\ last.op = "renderQuadrants"
        /\ Supplies4(last.arg.cameras)
        /\ Len(quadrantComposers) \in {0, 4}) =>
          \A d \in DrawsOf : d.aspect = d.viewAspect /\ d.aspectSet

\* C3: renderQuadrants draws 4 viewports or none, answers a cameras
\* argument that does not supply 4 cameras with an error, and draws fewer
\* than 4 viewports only with an error.
AllOrNothing ==
    last.op = "renderQuadrants" =>
        /\ Len(last.draws) \in {0, 4}
        /\ ~Supplies4(last.arg.cameras) => last.ret = "error"
        /\ Len(last.draws) < 4 => last.ret = "error"

\* C4: no call lets go of a quadrant chain without disposing it, so every
\* chain ever built is held in quadrantComposers or disposed; and right
\* after initializeQuadrantComposers with the rig's 4 cameras there are 4
\* chains, chain i built around cameras[i].
ChainsHeldOrDisposed ==
    /\ \A k \in 1..Len(last.released) : last.released[k].disposed
    /\ last.op = "initializeQuadrantComposers" =>
          /\ Len(quadrantComposers) = 4
          /\ \A i \in 1..4 :
                /\ quadrantComposers[i].camera = cameras[i]
                /\ ~quadrantComposers[i].disposed

\* a second initialize that replaced 4 chains built around older cameras
ChainsHeldOrDisposedWitness ==
    /\ last.op = "initializeQuadrantComposers"
    /\ Len(last.released) = 4
    /\ \A k \in 1..4 : last.released[k].camera # cameras[k]

\* C5: the pitch lies in [-30, 60] in every state of the rig from
\* construction on, and a rotation that would leave the range ends on the
\* nearer boundary.
PitchInRange ==
    /\ MinPitch <= userCameraState.pitch
    /\ userCameraState.pitch <= MaxPitch
    /\ last.op = "rotateSingleCamera" =>
          LET wanted == last.pre.userCameraState.pitch - last.arg[2]
          IN  /\ wanted > MaxPitch => userCameraState.pitch = MaxPitch
              /\ wanted < MinPitch => userCameraState.pitch = MinPitch

\* C6: the 4 cameras of getCameras() stand where the rig's current distance,
\* pitch and look-at target put them, at that distance from the target (to
\* rounding), and look at the target.
DistSq(p, q) ==
    (p.x - q.x) * (p.x - q.x) + (p.y - q.y) * (p.y - q.y)
        + (p.z - q.z) * (p.z - q.z)

CamerasCurrent ==
    \A i \in 1..4 :
        LET cam == camObj[cameras[i]] IN
        /\ cam.position =
               [x |-> lookAtTarget.x
                        + (distance * SinDeg(cam.yaw)
                             * CosDeg(userCameraState.pitch)) \div 1000000,
                y |-> lookAtTarget.y
                        + (distance * SinDeg(userCameraState.pitch)) \div 1000,
                z |-> lookAtTarget.z
                        + (distance * CosDeg(cam.yaw)
                             * CosDeg(userCameraState.pitch)) \div 1000000]
        /\ cam.lookAt = lookAtTarget
        /\ Abs(DistSq(cam.position, lookAtTarget) - distance * distance)
               <= 4 * Abs(distance) + 4

\* setDistance(4.5) after the look-at target was moved off the origin
CamerasCurrentWitness ==
    /\ last.op = "updateDistance" /\ last.arg = 450
    /\ distance # last.pre.distance
    /\ lookAtTarget # Origin

\* C7: setDistance(d) with d <= 0 is answered with an error or a clamped
\* positive distance, and the rig's distance is positive in every state.
DistancePositive ==
    /\ distance > 0
    /\ (last.op = "updateDistance" /\ last.arg <= 0) => last.ret = "error"

\* C8: setQuadrantMode(mode) returns true exactly for a valid mode other
\* than the current one; when it returns false the mode and the 4 cameras
\* (the objects, their yaw, roll and position) are as before.
SetQuadrantModeResult ==
    last.op = "setQuadrantMode" =>
        /\ last.ret = "true" <=>
               (last.arg \in Modes /\ last.arg # last.pre.quadrantMode)
        /\ last.ret \in {"true", "false"}
        /\ last.ret = "false" =>
               /\ quadrantMode = last.pre.quadrantMode
               /\ cameras = last.pre.cameras
               /\ Placed(cameras, camObj) = last.pre.placed

\* an invalid mode refused after a switch to UNIFIED_FRONT
SetQuadrantModeResultWitness ==
    /\ last.op = "setQuadrantMode" /\ last.arg = "invalid-mode"
    /\ last.ret = "false"
    /\ quadrantMode = "unified-front"

\* C9: back in CROSS_VIEW after a switch to UNIFIED_FRONT, each of the 4
\* slots has the yaw and roll it had when CROSS_VIEW was left.
ModeRoundTrip ==
    (quadrantMode = "pepper-ghost" /\ crossSaved # <<>>) =>
        YawRoll(cameras, camObj) = crossSaved

\* the switch back to CROSS_VIEW has just happened
ModeRoundTripWitness ==
    /\ last.op = "setQuadrantMode" /\ last.ret = "true"
    /\ quadrantMode = "pepper-ghost"
    /\ crossSaved # <<>>

RotateChangesYawAndPitchOnly ==
    last.op = "rotateSingleCamera" =>
        /\ userCameraState.yaw = last.pre.userCameraState.yaw + last.arg[1]
        /\ userCameraState.distance = last.pre.userCameraState.distance
        /\ distance = last.pre.distance
        /\ lookAtTarget = last.pre.lookAtTarget
        /\ quadrantMode = last.pre.quadrantMode
        /\ YawRoll(cameras, camObj)
               = [i \in 1..4 |-> <<last.pre.placed[i].yaw, last.pre.placed[i].roll>>]
        /\ \A i \in 1..4 :
              camObj[cameras[i]].position.y
                  = lookAtTarget.y
                        + (distance * SinDeg(userCameraState.pitch)) \div 1000
        /\ camObj[singleCamera].position.y
               = lookAtTarget.y
                     + (userCameraState.distance
                            * SinDeg(userCameraState.pitch)) \div 1000

\* a drag that turned the orbit camera and changed the pitch
RotateChangesYawAndPitchOnlyWitness ==
    /\ last.op = "rotateSingleCamera"
    /\ last.arg[1] # 0
    /\ userCameraState.pitch # last.pre.userCameraState.pitch
    /\ userCameraState.yaw # last.pre.userCameraState.yaw

\* the places in the last call's list of calls where a call of a name stands
CallsOf(name) == {k \in 1..Len(last.cmds) : last.cmds[k].cmd = name}

DrawCalls == CallsOf("render") \cup CallsOf("composer.render")

\* the last call of a name before place k, 0 if there is none
LastBefore(name, k) ==
    LET before == {j \in CallsOf(name) : j < k}
    IN  IF before = {} THEN 0
        ELSE CHOOSE j \in before : \A m \in before : m <= j

\* C14: a renderQuadrants frame clears exactly once, with viewport and
\* scissor set to the full canvas and before any slot is drawn; the slots
\* are drawn in the order top, bottom, left, right (all 4 when 4 cameras are
\* supplied), each draw after that slot's viewport and scissor were set.
ClearOnceThenSlotsInOrder ==
    QuadrantFrame =>
        /\ Cardinality(CallsOf("clear")) = 1
        /\ \A c \in CallsOf("clear") :
              /\ \A d \in DrawCalls : c < d
              /\ LastBefore("setViewport", c) # 0
              /\ LastBefore("setScissor", c) # 0
              /\ last.cmds[LastBefore("setViewport", c)].rect
                     = [x |-> 0, y |-> 0, width |-> canvasSize[1],
                        height |-> canvasSize[2]]
              /\ last.cmds[LastBefore("setScissor", c)].rect
                     = [x |-> 0, y |-> 0, width |-> canvasSize[1],
                        height |-> canvasSize[2]]
        /\ \A d, e \in DrawCalls :
              d < e => last.cmds[d].slot < last.cmds[e].slot
        /\ Supplies4(last.arg.cameras) =>
              {last.cmds[d].slot : d \in DrawCalls} = 1..4
        /\ \A d \in DrawCalls :
              LET v == LastBefore("setViewport", d)
                  s == LastBefore("setScissor", d)
              IN  /\ v # 0 /\ s # 0
                  /\ last.cmds[v].slot = last.cmds[d].slot
                  /\ last.cmds[s].slot = last.cmds[d].slot
                  /\ last.cmds[v].rect
                         = Floored(Viewports(canvasSize)[last.cmds[d].slot])
                  /\ last.cmds[s].rect = last.cmds[v].rect

\* a frame of 4 chain draws made after the chains were built inside the call
ClearOnceThenSlotsInOrderWitness ==
    /\ QuadrantFrame
    /\ Cardinality(CallsOf("composer.render")) = 4
    /\ CallsOf("initializeQuadrantComposers") # {}

\* C15: one resize first sets the renderer's pixel size and pixel ratio,
\* then resizes every quadrant chain and the single-view chain, and only
\* then calls the registered listener: the listener runs after every chain's
\* setSize and finds no chain at an old size.
ResizeOrder ==
    last.op = "onResize" =>
        /\ Cardinality(CallsOf("setSize")) = 1
        /\ Cardinality(CallsOf("setPixelRatio")) = 1
        /\ Cardinality(CallsOf("composer.setSize"))
               = Len(quadrantComposers) + Len(composer)
        /\ CallsOf("callback") # {}
        /\ \A r \in CallsOf("setSize") \cup CallsOf("setPixelRatio") :
              \A c \in CallsOf("composer.setSize") \cup CallsOf("callback") :
                  r < c
        /\ \A c \in CallsOf("composer.setSize") :
              \A n \in CallsOf("callback") : c < n
        /\ \A n \in CallsOf("callback") : last.cmds[n].slot = 0

\* a resize to another size with 4 quadrant chains and the single-view chain
ResizeOrderWitness ==
    /\ last.op = "onResize"
    /\ Cardinality(CallsOf("composer.setSize")) = 5
    /\ last.arg # StartSize

\* C16: when onResize returns for (w, h) the 4 quadrant cameras have aspect
\* 1, the orbit camera has aspect w/h and every chain has size (w, h); and
\* in every state a render tick can find, the quadrant cameras have aspect
\* 1, the orbit camera the canvas aspect and every chain the canvas size.
ResizeConsistent ==
    /\ last.op = "onResize" => canvasSize = last.arg
    /\ \A i \in 1..4 : camObj[cameras[i]].aspect = <<1, 1>>
    /\ camObj[singleCamera].aspect[1] * canvasSize[2]
           = camObj[singleCamera].aspect[2] * canvasSize[1]
    /\ \A k \in 1..Len(quadrantComposers) :
           quadrantComposers[k].size = canvasSize
    /\ \A k \in 1..Len(composer) : composer[k].size = canvasSize

\* a resize from landscape to portrait with every chain in place
ResizeConsistentWitness ==
    /\ last.op = "onResize"
    /\ last.arg = <<600, 900>>
    /\ Len(quadrantComposers) = 4
    /\ composer # <<>>

\* 66 times a fraction whose denominator divides 66
Times66(p) == (66 * p[1]) \div p[2]

\* the rectangles (x, y, width, height), in 66ths, of a cross of squares of
\* side s = min(w, h) / 3.3 centred on (w / 2, h / 2)
CrossIn66ths(w, h) ==
    LET m == IF w < h THEN w ELSE h
        s == 20 * m
    IN  << <<33 * w - 10 * m, 33 * h + 10 * m, s, s>>,
           <<33 * w - 10 * m, 33 * h - 30 * m, s, s>>,
           <<33 * w - 30 * m, 33 * h - 10 * m, s, s>>,
           <<33 * w + 10 * m, 33 * h - 10 * m, s, s>> >>

Overlap(a, b) ==
    /\ a.x < b.x + b.width /\ b.x < a.x + a.width
    /\ a.y < b.y + b.height /\ b.y < a.y + a.height

\* C13: the rectangles renderQuadrants applies (x, y, width and height
\* floored) are pairwise disjoint and lie inside the canvas [0, w] x [0, h]:
\* those of the draws of every quadrant frame, and the 4 of every canvas
\* size.
ScissorsDisjointInside ==
    LET w == canvasSize[1]
        h == canvasSize[2]
        inside(r) == /\ 0 <= r.x /\ 0 <= r.y
                     /\ 0 <= r.width /\ 0 <= r.height
                     /\ r.x + r.width <= w /\ r.y + r.height <= h
        applied == [i \in 1..4 |-> Floored(Viewports(canvasSize)[i])]
    IN  /\ \A i \in 1..4 : inside(applied[i])
        /\ \A i, j \in 1..4 : i # j => ~Overlap(applied[i], applied[j])
        /\ QuadrantFrame =>
              /\ \A d \in DrawsOf : inside(d.viewport)
              /\ \A j, k \in 1..Len(last.draws) :
                    j # k => ~Overlap(last.draws[j].viewport,
                                      last.draws[k].viewport)

\* a frame of 4 draws on a canvas whose side is not a multiple of 3.3
ScissorsDisjointInsideWitness ==
    /\ QuadrantFrame
    /\ Len(last.draws) = 4
    /\ canvasSize = <<37, 40>>
    /\ \A d \in DrawsOf : d.viewport.width = 11

\* C18: every run of animate() asks for exactly one further frame, whatever
\* its render call did, so one callback is always waiting; and after a run
\* whose render call threw, a later run takes place and issues the render
\* call again.
LoopSurvivesThrow ==
    /\ [](rafQueue = 1 /\ (tick.outcome # "none" => tick.scheduled = 1))
    /\ \A b \in {0, 1} :
          (tick.outcome = "caught" /\ tick.parity = b)
              ~> (tick.parity # b /\ tick.rendered # "none")

\* a frame rendered right after a frame whose render call threw
LoopSurvivesThrowWitness ==
    /\ tick.prev = "caught"
    /\ tick.outcome = "ok"
    /\ last.ret = "ok"
    /\ rafQueue = 1

\* C19 as claimed: a run of animate() with isAnimating false changes nothing
\* in the scene (no rotation, no animation time, no effect update) and
\* issues the render call of the view mode.
PausedTickMutatesNothing ==
    [][ (\E threw \in BOOLEAN : Animate(threw)) /\ ~app.isAnimating =>
           /\ app'.subject = app.subject
           /\ app'.time = app.time
           /\ ~tick'.mutated
           /\ tick'.rendered = (IF app.viewMode = "single" THEN "renderSingle"
                                ELSE "renderQuadrants")
           /\ last'.op = tick'.rendered ]_vars

\* C19 as amended: a run of animate() with isAnimating false leaves the
\* subject as it is (the mesh's rotation; in FuApp the text's breathing) and
\* issues the render call of the view mode.
PausedTickKeepsSubject ==
    [][ (\E threw \in BOOLEAN : Animate(threw)) /\ ~app.isAnimating =>
           /\ app'.subject = app.subject
           /\ ~tick'.subjectMutated
           /\ tick'.rendered = (IF app.viewMode = "single" THEN "renderSingle"
                                ELSE "renderQuadrants")
           /\ last'.op = tick'.rendered ]_vars

\* a paused frame of an app whose subject is loaded, rendered as quadrants
PausedTickKeepsSubjectWitness ==
    /\ tick.outcome = "ok"
    /\ tick.paused
    /\ app.mesh
    /\ tick.mutated
    /\ last.op = "renderQuadrants"
    /\ Len(last.draws) = 4

\* C17: after updateQuadrantBloom(strength, radius, threshold), called
\* directly or by setBloomStrength, the bloom stage of every quadrant chain
\* carries exactly those three values, and in every state all quadrant
\* chains carry the same bloom values.
BloomUniform ==
    /\ last.op \in {"updateQuadrantBloom", "setBloomStrength"} =>
          \A k \in 1..Len(quadrantComposers) :
              quadrantComposers[k].bloom = last.arg
    /\ \A j, k \in 1..Len(quadrantComposers) :
          quadrantComposers[j].bloom = quadrantComposers[k].bloom

\* C20: a RenderManager constructed without a canvas fails at construction
\* with an error outcome, and no instance without a rendering surface exists
\* on which renderQuadrants, renderSingle, onResize or getRenderer is called
\* afterwards: without a surface, the failed construction is the last thing
\* that happened.
NoInstanceWithoutCanvas ==
    renderer = "undefined" => (last.op = "new" /\ last.ret = "error")

\* C21: getCamera(index) and updateAspect(index, aspect) with an index
\* outside 0..3 give an explicit index-out-of-range error, never undefined
\* and never a silent no-op.
IndexOutOfRangeIsError ==
    (last.op \in {"getCamera", "updateAspect"} /\ last.arg.index \notin 0..3)
        => last.ret = "error"

\* C22: in every run of animate() the scene update of that run (rotation
\* increment, animation-time advance) is complete when the render call
\* starts, and nothing moves the scene between the start and the end of a
\* render call.
MutationBeforeRender ==
    /\ [](frame.rendering => frame.stepped)
    /\ [][frame.rendering => Scene(app') = Scene(app)]_vars

\* a render call under way in a run of animate() that turned the mesh
MutationBeforeRenderWitness ==
    /\ frame.rendering
    /\ frame.stepped
    /\ app.isAnimating
    /\ app.subject = 1

\* C23: whenever renderQuadrants draws slot i through quadrantComposers[i],
\* the camera that chain draws through is the camera object cameras[i] given
\* to the call, whatever the application did to the rig between frames.
ChainCameraIsCurrent ==
    last.op = "renderQuadrants" =>
        \A d \in DrawsOf :
            d.chain # 0 => d.camera = last.arg.cameras.list[d.slot]

\* C24: after resetEnergySequence() or reset() has run, the text stays
\* hidden and isRevealed and isExploding stay false until three new charge
\* taps have been accepted, also when the reset came during the 500 ms
\* before the explosion or while converge or scale-up callbacks are pending.
ResetHoldsUntilThreeTaps ==
    (fu.wasReset /\ fu.tapCount < 3) =>
        /\ ~fu.textVisible
        /\ ~fu.isRevealed
        /\ ~fu.isExploding

\* C25: the text is revealed only when exactly three charge taps have been
\* accepted since the start or the last reset, the first showing the second
\* orb and the second the third (the orbs being loaded), and a charge tap
\* while the text is revealed or the explosion is in progress changes
\* nothing.
RevealAfterExactlyThreeTaps ==
    /\ [](fu.isRevealed => fu.tapCount = 3)
    /\ [][ fu'.did = "tap" /\ fu' # fu /\ fu.orbs = "loaded" =>
             /\ fu'.tapCount = 1 => fu'.orbVisible[2]
             /\ fu'.tapCount = 2 => fu'.orbVisible[3]
             /\ fu'.tapCount = 3 => fu'.timers = fu.timers + 1 ]_vars
    /\ [][ (fu.isRevealed \/ fu.isExploding) /\ fu'.did \in {"tap", "tap-ignored"}
             /\ fu'.tapCount # 0 =>
             fu' = [fu EXCEPT !.did = "tap-ignored"] ]_vars

\* C26: once the third charge tap has been accepted the explosion sequence
\* finishes with isExploding false and isRevealed true, whether or not the
\* text and the orbs were loaded by then, and isExploding never stays true
\* for ever (a reset in between ends the sequence too).
ExplosionFinishes ==
    /\ (fu.did = "tap" /\ fu.tapCount = 3)
           ~> ((fu.isRevealed /\ ~fu.isExploding) \/ fu.did = "reset")
    /\ fu.isExploding ~> ~fu.isExploding

\* the times in the configured chain: requiredTaps of them, each at least
\* cooldown and at most tapWindow after the one before
Chained(times, config) ==
    /\ Len(times) = config.requiredTaps
    /\ \A i \in 2..Len(times) :
           /\ times[i] - times[i - 1] >= config.cooldown
           /\ times[i] - times[i - 1] <= config.tapWindow

\* C27: a recorded tap emits 'required-tap' exactly when it is the last of
\* requiredTaps recorded taps (counted from the last emission) each of
\* which follows the one before by at least cooldown and at most tapWindow;
\* a tap less than cooldown after the last recorded one is not recorded and
\* changes neither the time stamps nor lastTapTime; an emission leaves no
\* time stamp, so the count restarts from zero.
RequiredTapWhenChained ==
    /\ [][ tap'.event \in {"devicemotion", "pointerdown"} /\ tap'.recorded =>
             (tap'.emitted = "required-tap" <=>
                  Chained(LastOf(Append(tap.log, tap.now),
                                 tap.config.requiredTaps), tap.config)) ]_vars
    /\ [][ /\ tap'.event \in {"devicemotion", "pointerdown"}
           /\ tap # tap'
           /\ tap.now - tap.lastTapTime < tap.config.cooldown
           => /\ ~tap'.recorded
              /\ tap'.tapTimestamps = tap.tapTimestamps
              /\ tap'.lastTapTime = tap.lastTapTime ]_vars
    /\ [][ tap'.emitted = "required-tap" => tap'.tapTimestamps = <<>> ]_vars

\* C28: 'long-press' is emitted only for a pointer that went down at least
\* longPressDuration before with no pointerup, pointercancel or stop()
\* since; stop(), a new pointerdown and a pointerup or pointercancel of the
\* tracked pointer leave none of the timers pending before them pending;
\* at most one timer is pending at any time.
LongPressOnlyAfterHold ==
    /\ [](Cardinality(tap.timers) <= 1)
    /\ [][ tap'.emitted = "long-press" /\ tap'.event = "timer" /\ tap' # tap =>
             LET p == tap.longPressState.pointerId
             IN /\ p \in Pointers
                /\ tap.down[p] # 0
                /\ tap.now - tap.down[p] >= tap.config.longPressDuration
        ]_vars
    /\ [][ /\ tap' # tap
           /\ \/ tap'.event \in {"stop", "pointerdown"}
              \/ /\ tap'.event \in {"pointerup", "pointercancel"}
                 /\ tap.longPressState.isActive
                 /\ tap.down[tap.longPressState.pointerId] # 0
                 /\ tap'.down[tap.longPressState.pointerId] = 0
           => \A x \in tap.timers : x \notin tap'.timers ]_vars

\* a long press was emitted after an earlier timer had been set
LongPressWitness ==
    /\ tap.emitted = "long-press"
    /\ tap.nextTimer > 2

\* C29: in every reachable state of the rig the orbit radius of the single
\* camera, userCameraState.distance, is 1.7 times the shared quadrant
\* distance.
OrbitRadiusRatio == userCameraState.distance = SingleViewDistance(distance)

\* C30: on a resize every callback registered when it begins is called
\* exactly once, in registration order, with the new (width, height),
\* whether or not a callback before it threw, and no exception leaves
\* onResize().
ResizeNotifiesAll ==
    [][ resizeCallbacks'.did = "onResize" =>
          /\ Len(resizeCallbacks'.log) = Len(resizeCallbacks.list)
          /\ \A i \in 1..Len(resizeCallbacks.list) :
                 /\ resizeCallbacks'.log[i].callback = i
                 /\ resizeCallbacks'.log[i].size = canvasSize'
          /\ ~resizeCallbacks'.threw ]_vars

\* a resize in which a callback threw and the one registered after it was
\* called
ResizeNotifiesAllWitness ==
    /\ resizeCallbacks.did = "onResize"
    /\ \E i \in 1..Len(resizeCallbacks.log) :
           /\ resizeCallbacks.log[i].threw
           /\ i < Len(resizeCallbacks.log)
           /\ resizeCallbacks.log[i + 1].size = canvasSize

====
